---- MODULE Spec2Model ----
(***************************************************************************)
(* Verification model of the authentication / anti-abuse core of the       *)
(* NT219 e-commerce backend.                                                *)
(*                                                                         *)
(* The module holds several specifications over one set of variables:      *)
(*   Spec           refresh-token rotation by concurrent requests           *)
(*   SpecPassword   password reset / change and bearer authentication       *)
(*   SpecLimiter    failed-login tracker (Redis or in-memory, with cleanup) *)
(*   SpecBurst      the tracker under a burst of concurrent failing logins  *)
(*   SpecJwt        verifyAccessToken / verifyRefreshToken                  *)
(*   SpecAudit      writers of the audit hash chain                         *)
(*   SpecAuditModel the operations of the audit model on the collection     *)
(*   SpecAccount    register, verify, login, 2FA and password operations    *)
(*   SpecPayment    the payment-intent gate                                 *)
(*   SpecBearer     bearer authentication of a request                      *)
(* A specification leaves the variables of the other parts at their        *)
(* initial value.                                                          *)
(***************************************************************************)
EXTENDS Integers, Sequences, FiniteSets, TLC

VARIABLES
    \* ---- users and refresh sessions (Spec)
    tokenVersion,     \* user.tokenVersion, per user
    sessions,         \* refresh_sessions collection
    refreshIssued,    \* refresh JWTs handed to clients
    accessIssued,     \* access JWTs handed to clients
    uuidCount,        \* number of uuid() values drawn so far
    expired,          \* tokens whose exp / expiresAt lies in the past
    rcall,            \* refreshAccessToken calls in flight, per worker
    pcall,            \* resetPassword / changePassword calls in flight
    authAudit,        \* audit events written by the auth service
    rotated,          \* history: refresh tokens r for which Refresh(r) succeeded
    rotatedFrom,      \* history: each successor token with the token it was rotated from
    stale             \* history: access tokens issued before a successful password change

VARIABLES
    \* ---- failed-login tracker (SpecLimiter, SpecBurst)
    redisClient,      \* TRUE when the Redis client is in use, FALSE for in-memory mode
    faultsLeft,       \* Redis commands that may still fail in this run
    redisKV,          \* ratelimit:login:<key> entries in Redis, with their expiry
    failedLoginsMemory, \* the in-process Map
    now,              \* Date.now(), in ticks of 5 minutes
    cleanupDue,       \* the 5-minute interval timer has fired and cleanup has not run yet
    req,              \* login requests in flight, per worker
    refRecord,        \* history: the record a tracker that counts every answered failure would hold
    blockedUntilSet,  \* history: the blockedUntil the code last wrote for the key
    serial            \* history: no two requests have been in flight at once

limiterVars == <<redisClient, faultsLeft, redisKV, failedLoginsMemory, now, cleanupDue,
                 req, refRecord, blockedUntilSet, serial>>

authVars == <<tokenVersion, sessions, refreshIssued, accessIssued, uuidCount,
              expired, rcall, pcall, authAudit, rotated, rotatedFrom, stale>>

VARIABLES
    \* ---- token verification (SpecJwt)
    jwtToken,         \* the token handed to verifyAccessToken / verifyRefreshToken
    jwtResult         \* what the call did: the stage it ended in, payload or error

VARIABLES
    \* ---- audit collection (SpecAudit, SpecAuditModel)
    auditLogs,        \* audit_logs collection
    auditClock,       \* Date.now() in ms
    writer,           \* audit writes in flight, per writer
    written,          \* history: ids of the entries in the order they were inserted
    persisted,        \* history: every entry as it was when it was inserted
    auditOp           \* the last model operation and whether it was rejected

VARIABLES
    \* ---- one account and the auth operations on it (SpecAccount)
    account,          \* the UserModel document of the email, or Absent
    secureTokens,     \* number of generateSecureToken() values drawn so far
    call,             \* the last operation: its response and side effects
    consumed,         \* history: tokens t for which VerifyEmail(t) has succeeded
    tempTokens        \* history: the 2FA temp tokens loginUser has minted

VARIABLES
    \* ---- payment-intent gate (SpecPayment)
    payHistory,       \* the user's payment audit events of the last 24 hours
    orders,           \* orders created, each with the risk score of its request
    payCall           \* the last create-intent request and what it did

VARIABLES
    \* ---- bearer authentication of one request (SpecBearer)
    bearer            \* the last request through authenticate and its answer

\* BEGIN edge variables
VARIABLES
    gate,             \* the last request through cors and csrfProtection and what became of it
    rl,               \* the Redis client, the rate-limit store, the hit counters and the last request
    vaultClient,      \* the VaultClient singleton and the outcome of the last call
    verification,     \* the last call of verifyAuditSignature and its outcome
    logoutCall,       \* the last logout request and its answer
    presented,        \* the access token last issued, the request it was presented on and the answer
    keyed,            \* the login requests answered so far, each with the keys it used
    codes,            \* the 2FA setup of one account: the stored hashes and the backup codes handed out
    webhook,          \* the orders of two payment intents, their audit entries and emails, and the webhook events delivered
    anomaly           \* the last call of a detector of anomaly.service: its inputs, its AnomalyResult and the riskScore it gave the audit log
\* END edge variables

jwtVars == <<jwtToken, jwtResult>>
auditVars == <<auditLogs, auditClock, writer, written, persisted, auditOp>>
accountVars == <<account, secureTokens, call, consumed, tempTokens>>
payVars == <<payHistory, orders, payCall>>
bearerVars == <<bearer>>
\* BEGIN edge tuples
edgeVars == <<gate, rl, vaultClient, verification, logoutCall, presented, keyed, codes, webhook, anomaly>>
coreVars == <<authVars, limiterVars, jwtVars, auditVars, accountVars, payVars, bearerVars>>
besideGateVars == <<rl, vaultClient, verification, logoutCall, presented, keyed, codes, webhook, anomaly>>
nonGateVars == <<coreVars, besideGateVars>>
besideRlVars == <<gate, vaultClient, verification, logoutCall, presented, keyed, codes, webhook, anomaly>>
nonRlVars == <<coreVars, besideRlVars>>
besideVaultClientVars == <<gate, rl, verification, logoutCall, presented, keyed, codes, webhook, anomaly>>
nonVaultClientVars == <<coreVars, besideVaultClientVars>>
besideVerificationVars == <<gate, rl, vaultClient, logoutCall, presented, keyed, codes, webhook, anomaly>>
nonVerificationVars == <<coreVars, besideVerificationVars>>
besideLogoutCallVars == <<gate, rl, vaultClient, verification, presented, keyed, codes, webhook, anomaly>>
nonLogoutCallVars == <<coreVars, besideLogoutCallVars>>
besidePresentedVars == <<gate, rl, vaultClient, verification, logoutCall, keyed, codes, webhook, anomaly>>
nonPresentedVars == <<coreVars, besidePresentedVars>>
besideKeyedVars == <<gate, rl, vaultClient, verification, logoutCall, presented, codes, webhook, anomaly>>
nonKeyedVars == <<coreVars, besideKeyedVars>>
besideCodesVars == <<gate, rl, vaultClient, verification, logoutCall, presented, keyed, webhook, anomaly>>
nonCodesVars == <<coreVars, besideCodesVars>>
besideWebhookVars == <<gate, rl, vaultClient, verification, logoutCall, presented, keyed, codes, anomaly>>
nonWebhookVars == <<coreVars, besideWebhookVars>>
besideAnomalyVars == <<gate, rl, vaultClient, verification, logoutCall, presented, keyed, codes, webhook>>
nonAnomalyVars == <<coreVars, besideAnomalyVars>>
\* END edge tuples
nonAuthVars == <<limiterVars, jwtVars, auditVars, accountVars, payVars, bearerVars, edgeVars>>
nonLimiterVars == <<authVars, jwtVars, auditVars, accountVars, payVars, bearerVars, edgeVars>>
nonJwtVars == <<authVars, limiterVars, auditVars, accountVars, payVars, bearerVars, edgeVars>>
nonAuditVars == <<authVars, limiterVars, jwtVars, accountVars, payVars, bearerVars, edgeVars>>
nonAccountVars == <<authVars, limiterVars, jwtVars, auditVars, payVars, bearerVars, edgeVars>>
nonPayVars == <<authVars, limiterVars, jwtVars, auditVars, accountVars, bearerVars, edgeVars>>
nonBearerVars == <<authVars, limiterVars, jwtVars, auditVars, accountVars, payVars, edgeVars>>
vars == <<authVars, limiterVars, jwtVars, auditVars, accountVars, payVars, bearerVars, edgeVars>>

(***************************************************************************)
(* Bounds                                                                  *)
(***************************************************************************)
MaxMint == 3            \* token pairs minted (login or rotation)
MaxTokenVersion == 1    \* password changes per user

Users == {"alice"}
RefreshWorkers == {"r1", "r2"}
PasswordWorkers == {"p1"}

(***************************************************************************)
(* Tokens                                                                  *)
(***************************************************************************)
NoToken == [type |-> "none", sub |-> "", family |-> 0, tokenVersion |-> 0, jti |-> 0]

\* jwt.ts signRefreshToken: payload {sub, family, tokenVersion, type:'refresh'}
signRefreshToken(sub, family, tv) ==
    [type |-> "refresh", sub |-> sub, family |-> family, tokenVersion |-> tv, jti |-> 0]

\* jwt.ts signAccessToken: payload {sub, ..., tokenVersion, jti}
signAccessToken(sub, tv, jti) ==
    [type |-> "access", sub |-> sub, family |-> 0, tokenVersion |-> tv, jti |-> jti]

\* jwt.ts hashToken: SHA-256 of the token, collision free on the tokens of the model
hashToken(t) == <<"sha256", t>>

NoResult == [kind |-> "none", message |-> "", access |-> NoToken, refresh |-> NoToken]
Failure(msg) == [kind |-> "error", message |-> msg, access |-> NoToken, refresh |-> NoToken]
Tokens(a, r) == [kind |-> "ok", message |-> "", access |-> a, refresh |-> r]

IdleRefresh == [pc |-> "idle", token |-> NoToken, result |-> NoResult,
                late |-> FALSE, overlap |-> FALSE, reuse |-> FALSE]
IdlePassword == [pc |-> "idle", user |-> "", before |-> {}, result |-> "none"]

(***************************************************************************)
(* Session store (refreshToken.service)                                    *)
(***************************************************************************)
SessionOf(t) == {s \in sessions : s.hashedToken = hashToken(t)}

\* Validate(token): look up by hash; fail if not found, revoked, or expired
validateRefreshToken(t) ==
    IF SessionOf(t) = {} THEN "Invalid refresh token"
    ELSE IF \E s \in SessionOf(t) : s.revoked THEN "Refresh token revoked"
    ELSE IF t \in expired THEN "Refresh token expired"
    ELSE "ok"

\* Revoke(token, reason): mark the session of the token revoked
revokeRefreshToken(t) ==
    {IF s.hashedToken = hashToken(t) THEN [s EXCEPT !.revoked = TRUE] ELSE s : s \in sessions}

\* RevokeAll(userId, reason)
revokeAllUserTokens(u) ==
    {IF s.userId = u THEN [s EXCEPT !.revoked = TRUE] ELSE s : s \in sessions}

\* Create(token, userId, device, family, expiresAt): unique index on hashedToken
DuplicateKey(t) == SessionOf(t) # {}
createRefreshToken(t, u, family) ==
    sessions \cup {[hashedToken |-> hashToken(t), userId |-> u, family |-> family,
                    revoked |-> FALSE]}

\* user.invalidateAllTokens(): increment tokenVersion
invalidateAllTokens(u) == [tokenVersion EXCEPT ![u] = @ + 1]

(***************************************************************************)
(* Login: loginUser lines 263-307, the branch that mints tokens            *)
(***************************************************************************)
Login(u) ==
    /\ uuidCount + 2 <= 2 * MaxMint
    /\ LET family == uuidCount + 1
           jti == uuidCount + 2
           access == signAccessToken(u, tokenVersion[u], jti)
           refresh == signRefreshToken(u, family, tokenVersion[u])
       IN /\ sessions' = createRefreshToken(refresh, u, family)
          /\ accessIssued' = accessIssued \cup {access}
          /\ refreshIssued' = refreshIssued \cup {refresh}
          /\ uuidCount' = uuidCount + 2
          /\ authAudit' = authAudit \cup {[eventType |-> "auth.login", userId |-> u]}
    /\ UNCHANGED <<tokenVersion, expired, rcall, pcall, rotated, rotatedFrom, stale>>
    /\ UNCHANGED nonAuthVars

\* The clock passes the exp of a token (and the expiresAt of its session). Tokens of
\* one type have one lifetime, so they expire in the order they were issued.
IssuedBefore(t) ==
    {o \in refreshIssued \cup accessIssued :
        o.type = t.type /\ o.family + o.jti < t.family + t.jti}

Expire(t) ==
    /\ t \notin expired
    /\ IssuedBefore(t) \subseteq expired
    /\ expired' = expired \cup {t}
    /\ UNCHANGED <<tokenVersion, sessions, refreshIssued, accessIssued, uuidCount,
                   rcall, pcall, authAudit, rotated, rotatedFrom, stale>>
    /\ UNCHANGED nonAuthVars

(***************************************************************************)
(* refreshAccessToken, one action per await                                *)
(***************************************************************************)
InFlight(q) == rcall[q].pc \in {"validated", "loaded", "revoked"}

\* jwt.ts verifyRefreshToken on a token this server signed: fails once exp has passed
verifyRefreshTokenIssued(t) == IF t \in expired THEN "jwt expired" ELSE "ok"

\* lines 434-437: validateRefreshToken, then verifyRefreshToken
RefreshValidate(p, t) ==
    /\ rcall[p].pc = "idle"
    /\ LET v == validateRefreshToken(t)
           j == verifyRefreshTokenIssued(t)
           others == {q \in DOMAIN rcall \ {p} : InFlight(q) /\ rcall[q].token = t}
           mine == [rcall[p] EXCEPT
                      !.token = t,
                      !.late = (t \in rotated),
                      !.overlap = (others # {}),
                      !.reuse = (\E s \in SessionOf(t) : s.revoked) /\ t \notin expired,
                      !.pc = IF v = "ok" /\ j = "ok" THEN "validated" ELSE "done",
                      !.result = IF v # "ok" THEN Failure(v)
                                 ELSE IF j # "ok" THEN Failure(j) ELSE NoResult]
       IN rcall' = [q \in DOMAIN rcall |->
                      IF q = p THEN mine
                      ELSE IF q \in others THEN [rcall[q] EXCEPT !.overlap = TRUE]
                      ELSE rcall[q]]
    /\ UNCHANGED <<tokenVersion, sessions, refreshIssued, accessIssued, uuidCount,
                   expired, pcall, authAudit, rotated, rotatedFrom, stale>>
    /\ UNCHANGED nonAuthVars

\* lines 440-450: load the user, compare tokenVersion
RefreshLoadUser(p) ==
    /\ rcall[p].pc = "validated"
    /\ LET t == rcall[p].token
       IN rcall' = [rcall EXCEPT ![p] =
            IF t.tokenVersion # tokenVersion[t.sub]
            THEN [@ EXCEPT !.pc = "done", !.result = Failure("Token invalidated")]
            ELSE [@ EXCEPT !.pc = "loaded"]]
    /\ UNCHANGED <<tokenVersion, sessions, refreshIssued, accessIssued, uuidCount,
                   expired, pcall, authAudit, rotated, rotatedFrom, stale>>
    /\ UNCHANGED nonAuthVars

\* A rotation that forgets line 453
RefreshRevokeSkipped(p) ==
    /\ rcall[p].pc = "loaded"
    /\ rcall' = [rcall EXCEPT ![p].pc = "revoked"]
    /\ UNCHANGED <<tokenVersion, sessions, refreshIssued, accessIssued, uuidCount,
                   expired, pcall, authAudit, rotated, rotatedFrom, stale>>
    /\ UNCHANGED nonAuthVars

\* line 453: revoke the presented token first
RefreshRevoke(p) ==
    /\ rcall[p].pc = "loaded"
    /\ sessions' = revokeRefreshToken(rcall[p].token)
    /\ rcall' = [rcall EXCEPT ![p].pc = "revoked"]
    /\ UNCHANGED <<tokenVersion, refreshIssued, accessIssued, uuidCount,
                   expired, pcall, authAudit, rotated, rotatedFrom, stale>>
    /\ UNCHANGED nonAuthVars

\* lines 456-495: new family, sign, insert the successor session, return the tokens.
\* The tokenVersion signed is the one of the user document loaded at line 440, which
\* equals the presented token's.
RefreshCreate(p) ==
    /\ rcall[p].pc = "revoked"
    /\ uuidCount + 2 <= 2 * MaxMint
    /\ LET t == rcall[p].token
           newFamily == uuidCount + 1
           jti == uuidCount + 2
           newAccess == signAccessToken(t.sub, t.tokenVersion, jti)
           newRefresh == signRefreshToken(t.sub, newFamily, t.tokenVersion)
       IN /\ uuidCount' = uuidCount + 2
          /\ IF DuplicateKey(newRefresh)
             THEN /\ rcall' = [rcall EXCEPT ![p].pc = "done",
                        ![p].result = Failure("Token refresh in progress, please retry")]
                  /\ UNCHANGED <<sessions, refreshIssued, accessIssued, rotated, rotatedFrom>>
             ELSE /\ sessions' = createRefreshToken(newRefresh, t.sub, newFamily)
                  /\ refreshIssued' = refreshIssued \cup {newRefresh}
                  /\ accessIssued' = accessIssued \cup {newAccess}
                  /\ rotated' = rotated \cup {t}
                  /\ rotatedFrom' = rotatedFrom \cup {[successor |-> newRefresh, from |-> t]}
                  /\ rcall' = [rcall EXCEPT ![p].pc = "done",
                                            ![p].result = Tokens(newAccess, newRefresh)]
    /\ UNCHANGED <<tokenVersion, expired, pcall, authAudit, stale>>
    /\ UNCHANGED nonAuthVars

\* refreshHandler has answered; the worker takes the next request
RefreshReturn(p) ==
    /\ rcall[p].pc = "done"
    /\ rcall' = [rcall EXCEPT ![p] = IdleRefresh]
    /\ UNCHANGED <<tokenVersion, sessions, refreshIssued, accessIssued, uuidCount,
                   expired, pcall, authAudit, rotated, rotatedFrom, stale>>
    /\ UNCHANGED nonAuthVars

\* logoutUser: revoke the session of the cookie's token
Logout(t) ==
    /\ \E s \in SessionOf(t) : ~s.revoked
    /\ sessions' = revokeRefreshToken(t)
    /\ UNCHANGED <<tokenVersion, refreshIssued, accessIssued, uuidCount,
                   expired, rcall, pcall, authAudit, rotated, rotatedFrom, stale>>
    /\ UNCHANGED nonAuthVars

\* logoutAllSessions: revoke every session of the user
LogoutAll(u) ==
    /\ \E s \in sessions : s.userId = u /\ ~s.revoked
    /\ sessions' = revokeAllUserTokens(u)
    /\ UNCHANGED <<tokenVersion, refreshIssued, accessIssued, uuidCount,
                   expired, rcall, pcall, authAudit, rotated, rotatedFrom, stale>>
    /\ UNCHANGED nonAuthVars

(***************************************************************************)
(* resetPassword / changePassword, one action per await                     *)
(***************************************************************************)
\* resetPassword 558-575, changePassword 597-617: load the user, check the reset
\* token or the current password, check the password history
PasswordStart(q, u, kind, valid) ==
    /\ pcall[q].pc = "idle"
    /\ tokenVersion[u] < MaxTokenVersion
    /\ pcall' = [pcall EXCEPT ![q] =
          [pc |-> IF valid THEN "started" ELSE "done",
           user |-> u,
           before |-> {a \in accessIssued : a.sub = u},
           result |-> IF valid THEN "none" ELSE "error"]]
    /\ UNCHANGED <<tokenVersion, sessions, refreshIssued, accessIssued, uuidCount,
                   expired, rcall, authAudit, rotated, rotatedFrom, stale>>
    /\ UNCHANGED nonAuthVars

\* lines 578-582 / 620-622: user.save() with the new password
PasswordSave(q) ==
    /\ pcall[q].pc = "started"
    /\ pcall' = [pcall EXCEPT ![q].pc = "saved"]
    /\ UNCHANGED <<tokenVersion, sessions, refreshIssued, accessIssued, uuidCount,
                   expired, rcall, authAudit, rotated, rotatedFrom, stale>>
    /\ UNCHANGED nonAuthVars

\* A password change that forgets lines 585 / 625
PasswordInvalidateSkipped(q) ==
    /\ pcall[q].pc = "saved"
    /\ pcall' = [pcall EXCEPT ![q].pc = "invalidated"]
    /\ UNCHANGED <<tokenVersion, sessions, refreshIssued, accessIssued, uuidCount,
                   expired, rcall, authAudit, rotated, rotatedFrom, stale>>
    /\ UNCHANGED nonAuthVars

\* lines 585 / 625: user.invalidateAllTokens()
PasswordInvalidate(q) ==
    /\ pcall[q].pc = "saved"
    /\ tokenVersion' = invalidateAllTokens(pcall[q].user)
    /\ pcall' = [pcall EXCEPT ![q].pc = "invalidated"]
    /\ UNCHANGED <<sessions, refreshIssued, accessIssued, uuidCount,
                   expired, rcall, authAudit, rotated, rotatedFrom, stale>>
    /\ UNCHANGED nonAuthVars

\* lines 586 / 626: revokeAllUserTokens
PasswordRevokeAll(q) ==
    /\ pcall[q].pc = "invalidated"
    /\ sessions' = revokeAllUserTokens(pcall[q].user)
    /\ pcall' = [pcall EXCEPT ![q].pc = "revokedAll"]
    /\ UNCHANGED <<tokenVersion, refreshIssued, accessIssued, uuidCount,
                   expired, rcall, authAudit, rotated, rotatedFrom, stale>>
    /\ UNCHANGED nonAuthVars

\* lines 589-593 / 629-633: await sendPasswordChangedEmail (sendEmail rethrows a
\* transport error), then return the success message
PasswordNotify(q, sent) ==
    /\ pcall[q].pc = "revokedAll"
    /\ pcall' = [pcall EXCEPT ![q].pc = "done",
                              ![q].result = IF sent THEN "ok" ELSE "error"]
    /\ stale' = IF sent THEN stale \cup pcall[q].before ELSE stale
    /\ UNCHANGED <<tokenVersion, sessions, refreshIssued, accessIssued, uuidCount,
                   expired, rcall, authAudit, rotated, rotatedFrom>>
    /\ UNCHANGED nonAuthVars

PasswordReturn(q) ==
    /\ pcall[q].pc = "done"
    /\ pcall' = [pcall EXCEPT ![q] = IdlePassword]
    /\ UNCHANGED <<tokenVersion, sessions, refreshIssued, accessIssued, uuidCount,
                   expired, rcall, authAudit, rotated, rotatedFrom, stale>>
    /\ UNCHANGED nonAuthVars

(***************************************************************************)
(* Bearer authentication (authMiddleware authenticate)                     *)
(***************************************************************************)
\* A check that never fires
TokenVersionMismatchIgnored(t) == FALSE

\* line 56: payload.tokenVersion !== user.tokenVersion
TokenVersionMismatch(t) == t.tokenVersion # tokenVersion[t.sub]

\* lines 45-148 for a token this server signed; locked and fpMatch are the account
\* lock and the fingerprint comparison of the request
authenticate(t, locked, fpMatch) ==
    IF t \in expired THEN [status |-> 401, message |-> "Invalid or expired token"]
    ELSE IF TokenVersionMismatch(t) THEN [status |-> 401, message |-> "Token has been revoked"]
    ELSE IF locked THEN [status |-> 403, message |-> "Account is temporarily locked"]
    ELSE IF ~fpMatch THEN [status |-> 401, message |-> "Session invalid. Please login again."]
    ELSE [status |-> 200, message |-> "next"]

(***************************************************************************)
(* Spec: sessions, rotation, password change, bearer authentication        *)
(***************************************************************************)
InitAuthWith(workers) ==
    /\ tokenVersion = [u \in Users |-> 0]
    /\ sessions = {}
    /\ refreshIssued = {}
    /\ accessIssued = {}
    /\ uuidCount = 0
    /\ expired = {}
    /\ rcall = [p \in workers |-> IdleRefresh]
    /\ pcall = [q \in PasswordWorkers |-> IdlePassword]
    /\ authAudit = {}
    /\ rotated = {}
    /\ rotatedFrom = {}
    /\ stale = {}

RefreshStep ==
    \/ \E p \in DOMAIN rcall, t \in refreshIssued : RefreshValidate(p, t)
    \/ \E p \in DOMAIN rcall : RefreshLoadUser(p)
    \/ \E p \in DOMAIN rcall : RefreshRevoke(p)
    \/ \E p \in DOMAIN rcall : RefreshCreate(p)
    \/ \E p \in DOMAIN rcall : RefreshReturn(p)

PasswordStep ==
    \/ \E q \in PasswordWorkers, u \in Users, kind \in {"reset", "change"}, valid \in BOOLEAN :
          PasswordStart(q, u, kind, valid)
    \/ \E q \in PasswordWorkers : PasswordSave(q)
    \/ \E q \in PasswordWorkers : PasswordInvalidate(q)
    \/ \E q \in PasswordWorkers : PasswordRevokeAll(q)
    \/ \E q \in PasswordWorkers, sent \in BOOLEAN : PasswordNotify(q, sent)
    \/ \E q \in PasswordWorkers : PasswordReturn(q)

(***************************************************************************)
(* Properties of rotation and password change                              *)
(***************************************************************************)
RefreshInProgress == Failure("Token refresh in progress, please retry")

\* C1: when two Refresh calls presenting the same refresh token overlap, exactly one
\* returns new tokens and the other fails as 'refresh in progress' without tokens.
C1_ConcurrentRefreshOneWinner ==
    \A p, q \in DOMAIN rcall :
        ( /\ p # q
          /\ rcall[p].pc = "done" /\ rcall[q].pc = "done"
          /\ rcall[p].token = rcall[q].token
          /\ rcall[p].overlap /\ rcall[q].overlap )
        => \/ rcall[p].result.kind = "ok" /\ rcall[q].result = RefreshInProgress
           \/ rcall[q].result.kind = "ok" /\ rcall[p].result = RefreshInProgress

\* The first half of C1 alone: two overlapping rotations of one token never both
\* return tokens.
AtMostOneRotationWins ==
    \A p, q \in DOMAIN rcall :
        (p # q /\ rcall[p].pc = "done" /\ rcall[q].pc = "done"
           /\ rcall[p].token = rcall[q].token)
        => ~(rcall[p].result.kind = "ok" /\ rcall[q].result.kind = "ok")

\* C2: a Refresh(r) that starts after some Refresh(r) has succeeded fails at once
\* and returns neither an access token nor a refresh token.
C2_RotatedTokenRefused ==
    \A p \in DOMAIN rcall :
        rcall[p].late =>
            /\ rcall[p].pc = "done"
            /\ rcall[p].result.kind = "error"
            /\ rcall[p].result.access = NoToken
            /\ rcall[p].result.refresh = NoToken

C2_Witness ==
    \E p \in DOMAIN rcall :
        /\ rcall[p].late
        /\ rcall[p].pc = "done"
        /\ rcall[p].token \notin expired

\* C3: when Refresh is presented a token whose session is revoked and not yet
\* expired, every session of that family is revoked and a suspicious-activity
\* audit event is recorded.
C3_ReuseRevokesFamilyAndAudits ==
    \A p \in DOMAIN rcall :
        (rcall[p].reuse /\ rcall[p].pc = "done") =>
            /\ \A s \in sessions :
                  (\E o \in SessionOf(rcall[p].token) : o.family = s.family) => s.revoked
            /\ [eventType |-> "security.suspicious_activity",
                userId |-> rcall[p].token.sub] \in authAudit

\* C4: once a password reset or change has returned success, every access token
\* issued to the user before the call is answered 401 by bearer authentication,
\* its tokenVersion differing from the user's.
C4_StaleAccessRejected ==
    \A t \in stale : \A locked \in BOOLEAN, fpMatch \in BOOLEAN :
        /\ authenticate(t, locked, fpMatch).status = 401
        /\ t.tokenVersion # tokenVersion[t.sub]

C4_Witness ==
    \E t \in stale :
        /\ t \notin expired
        /\ \E q \in PasswordWorkers : pcall[q].pc = "done" /\ pcall[q].result = "ok"
        /\ authenticate(t, FALSE, TRUE).message = "Token has been revoked"

(***************************************************************************)
(* Failed-login tracker (middleware/rateLimiter.ts)                        *)
(***************************************************************************)
MaxTime == 7            \* clock ticks explored
MaxFaults == 1          \* failing Redis commands explored

\* rateLimiter.ts 78-81, in ticks of 5 minutes
LOGIN_ATTEMPT_WINDOW == 3
MAX_FAILED_ATTEMPTS == 5
BLOCK_DURATION == 6
PROGRESSIVE_DELAYS == <<0, 1000, 2000, 5000, 10000>>
\* line 122: ttl = LOGIN_ATTEMPT_WINDOW + BLOCK_DURATION
RedisTtl == LOGIN_ATTEMPT_WINDOW + BLOCK_DURATION

Keys == {"ip:emailhash"}
LoginWorkers == {"w1"}
BurstWorkers == {"b1", "b2", "b3", "b4", "b5", "b6"}

\* "no record": get returned null
\* "no record": get returned null.  lastAttempt is written by trackFailedLogin and
\* read nowhere, so the records carry the four fields that are read.
NoRecord == [count |-> 0, firstAttempt |-> 0, blocked |-> FALSE, blockedUntil |-> 0]
NoEntry == [record |-> NoRecord, expiresAt |-> 0]

IdleRequest == [pc |-> "idle", key |-> "", record |-> NoRecord,
                status |-> 0, retryAfter |-> 0, owed429 |-> FALSE, inBlock |-> FALSE]

\* What a Redis GET returns at the present time: entries past their TTL are gone
RedisGet(k) == IF redisKV[k].record # NoRecord /\ now < redisKV[k].expiresAt
               THEN redisKV[k].record ELSE NoRecord

\* getFailedLoginRecord, lines 101-113; failed: the Redis command threw
getFailedLoginRecord(k, failed) ==
    IF redisClient /\ ~failed /\ RedisGet(k) # NoRecord
    THEN RedisGet(k)
    ELSE failedLoginsMemory[k]

\* setFailedLoginRecord, lines 118-130
SetRecord(k, record, failed) ==
    IF redisClient /\ ~failed
    THEN /\ redisKV' = [redisKV EXCEPT ![k] = [record |-> record, expiresAt |-> now + RedisTtl]]
         /\ UNCHANGED failedLoginsMemory
    ELSE /\ failedLoginsMemory' = [failedLoginsMemory EXCEPT ![k] = record]
         /\ UNCHANGED redisKV

\* deleteFailedLoginRecord, lines 135-145
DeleteRecord(k, failed) ==
    IF redisClient /\ ~failed
    THEN /\ redisKV' = [redisKV EXCEPT ![k] = NoEntry]
         /\ UNCHANGED failedLoginsMemory
    ELSE /\ failedLoginsMemory' = [failedLoginsMemory EXCEPT ![k] = NoRecord]
         /\ UNCHANGED redisKV

\* A Redis command may fail only in Redis mode and while the fault budget lasts
FaultChoices == IF redisClient /\ faultsLeft > 0 THEN {FALSE, TRUE} ELSE {FALSE}
Spend(failed) == faultsLeft' = IF failed THEN faultsLeft - 1 ELSE faultsLeft

FirstRecord(t) == [count |-> 1, firstAttempt |-> t, blocked |-> FALSE, blockedUntil |-> 0]

\* A tracker that overwrites without counting
trackedRecordLost(record, t) == FirstRecord(t)

\* trackFailedLogin, lines 155-184: the record to write, from the one read and the
\* time sampled at line 152
trackedRecord(record, t) ==
    IF record = NoRecord THEN FirstRecord(t)
    ELSE IF t - record.firstAttempt > LOGIN_ATTEMPT_WINDOW THEN FirstRecord(t)
    ELSE IF record.count + 1 >= MAX_FAILED_ATTEMPTS
         THEN [record EXCEPT !.count = @ + 1,
                              !.blocked = TRUE, !.blockedUntil = t + BLOCK_DURATION]
         ELSE [record EXCEPT !.count = @ + 1]

\* isLoginBlocked without the test of line 211
isLoginBlockedForever(record, t) ==
    IF record = NoRecord THEN "pass"
    ELSE IF record.blocked /\ record.blockedUntil # 0 THEN "blocked"
    ELSE IF t - record.firstAttempt > LOGIN_ATTEMPT_WINDOW THEN "expired"
    ELSE "pass"

\* isLoginBlocked, lines 205-228: "blocked", "expired" (delete, then pass) or "pass"
isLoginBlocked(record, t) ==
    IF record = NoRecord THEN "pass"
    ELSE IF record.blocked /\ record.blockedUntil # 0
         THEN (IF t >= record.blockedUntil THEN "expired" ELSE "blocked")
    ELSE IF t - record.firstAttempt > LOGIN_ATTEMPT_WINDOW THEN "expired"
    ELSE "pass"

Min(a, b) == IF a < b THEN a ELSE b

\* getProgressiveDelay, lines 238-241 (ms)
getProgressiveDelay(record) ==
    IF record = NoRecord THEN 0
    ELSE PROGRESSIVE_DELAYS[Min(record.count, Len(PROGRESSIVE_DELAYS) - 1) + 1]

(***************************************************************************)
(* A login request: checkLoginBlock, loginHandler and the tracker call it   *)
(* leaves running.  With the Redis client every command is a round trip at  *)
(* which other requests interleave; with the in-process Map a chain of      *)
(* tracker calls runs without interruption.                                 *)
(***************************************************************************)
MidChain(q) ==
    ~redisClient /\ req[q].pc \in {"checkDelete", "delayGet", "trackGet", "trackSet", "resetDel"}
Free(p) == \A q \in DOMAIN req \ {p} : ~MidChain(q)
Finished(q) == req[q].pc \in {"idle", "rejected", "finished"}

\* the tracker that counts every answered failure is blocking the key
RefBlocked(k) == refRecord[k].blocked /\ now < refRecord[k].blockedUntil

\* checkLoginBlock 248-259 with isLoginBlocked 201-228: read the record, decide
CheckGet(p, k, failed) ==
    /\ req[p].pc = "idle"
    /\ Free(p)
    /\ LET record == getFailedLoginRecord(k, failed)
           verdict == isLoginBlocked(record, now)
       IN req' = [req EXCEPT ![p] =
            [IdleRequest EXCEPT
               !.key = k,
               !.pc = IF verdict = "blocked" THEN "rejected"
                      ELSE IF verdict = "expired" THEN "checkDelete" ELSE "delayGet",
               !.status = IF verdict = "blocked" THEN 429 ELSE 0,
               !.retryAfter = IF verdict = "blocked" THEN record.blockedUntil - now ELSE 0,
               !.owed429 = RefBlocked(k) /\ ~failed /\ faultsLeft = MaxFaults,
               !.inBlock = now < blockedUntilSet[k] /\ ~failed /\ faultsLeft = MaxFaults]]
    /\ serial' = (serial /\ \A q \in DOMAIN req \ {p} : Finished(q))
    /\ Spend(failed)
    /\ UNCHANGED <<redisClient, redisKV, failedLoginsMemory, now, cleanupDue,
                   refRecord, blockedUntilSet>>
    /\ UNCHANGED nonLimiterVars

\* isLoginBlocked 212 / 224: delete the expired record
CheckDelete(p, failed) ==
    /\ req[p].pc = "checkDelete"
    /\ Free(p)
    /\ DeleteRecord(req[p].key, failed)
    /\ req' = [req EXCEPT ![p].pc = "delayGet"]
    /\ Spend(failed)
    /\ UNCHANGED <<redisClient, now, cleanupDue, refRecord, blockedUntilSet, serial>>
    /\ UNCHANGED nonLimiterVars

\* checkLoginBlock 262-268 with getProgressiveDelay: read the record again
DelayGet(p, failed) ==
    /\ req[p].pc = "delayGet"
    /\ Free(p)
    /\ LET delay == getProgressiveDelay(getFailedLoginRecord(req[p].key, failed))
       IN req' = [req EXCEPT ![p].pc = IF delay > 0 THEN "delaying" ELSE "handler"]
    /\ Spend(failed)
    /\ UNCHANGED <<redisClient, redisKV, failedLoginsMemory, now, cleanupDue,
                   refRecord, blockedUntilSet, serial>>
    /\ UNCHANGED nonLimiterVars

\* line 264: setTimeout(() => next(), delay)
DelayFire(p) ==
    /\ req[p].pc = "delaying"
    /\ Free(p)
    /\ req' = [req EXCEPT ![p].pc = "handler"]
    /\ UNCHANGED <<redisClient, faultsLeft, redisKV, failedLoginsMemory, now, cleanupDue,
                   refRecord, blockedUntilSet, serial>>
    /\ UNCHANGED nonLimiterVars

\* loginHandler, auth.controller.ts 128-172: loginUser ends, the response is sent,
\* and resetFailedLogin / trackFailedLogin is called without await.
\* outcome: "tokens", "failure", or "pending" (2FA or e-mail verification required)
Handler(p, outcome) ==
    /\ req[p].pc = "handler"
    /\ Free(p)
    /\ LET k == req[p].key
           ref == IF refRecord[k].blocked /\ now >= refRecord[k].blockedUntil
                  THEN NoRecord ELSE refRecord[k]
       IN /\ req' = [req EXCEPT ![p].pc = IF outcome = "tokens" THEN "resetDel"
                                           ELSE IF outcome = "failure" THEN "trackGet"
                                           ELSE "finished",
                                 ![p].status = IF outcome = "failure" THEN 401 ELSE 200]
          /\ refRecord' = [refRecord EXCEPT ![k] =
                              IF outcome = "tokens" THEN NoRecord
                              ELSE IF outcome = "failure" THEN trackedRecord(ref, now)
                              ELSE @]
    /\ UNCHANGED <<redisClient, faultsLeft, redisKV, failedLoginsMemory, now, cleanupDue,
                   blockedUntilSet, serial>>
    /\ UNCHANGED nonLimiterVars

\* trackFailedLogin 153: read the record
TrackGet(p, failed) ==
    /\ req[p].pc = "trackGet"
    /\ Free(p)
    /\ req' = [req EXCEPT ![p].pc = "trackSet",
                          ![p].record = getFailedLoginRecord(req[p].key, failed)]
    /\ Spend(failed)
    /\ UNCHANGED <<redisClient, redisKV, failedLoginsMemory, now, cleanupDue,
                   refRecord, blockedUntilSet, serial>>
    /\ UNCHANGED nonLimiterVars

\* trackFailedLogin 155-186: write the record computed from the one read
TrackSet(p, failed) ==
    /\ req[p].pc = "trackSet"
    /\ Free(p)
    /\ LET k == req[p].key
           record == trackedRecord(req[p].record, now)
       IN /\ SetRecord(k, record, failed)
          /\ blockedUntilSet' = [blockedUntilSet EXCEPT ![k] =
                IF record.blocked /\ record.blockedUntil > @ THEN record.blockedUntil ELSE @]
    /\ req' = [req EXCEPT ![p].pc = "finished", ![p].record = NoRecord]
    /\ Spend(failed)
    /\ UNCHANGED <<redisClient, now, cleanupDue, refRecord, serial>>
    /\ UNCHANGED nonLimiterVars

\* resetFailedLogin 192-195
ResetDel(p, failed) ==
    /\ req[p].pc = "resetDel"
    /\ Free(p)
    /\ DeleteRecord(req[p].key, failed)
    /\ req' = [req EXCEPT ![p].pc = "finished"]
    /\ Spend(failed)
    /\ UNCHANGED <<redisClient, now, cleanupDue, refRecord, blockedUntilSet, serial>>
    /\ UNCHANGED nonLimiterVars

\* the worker takes the next request
RequestReturn(p) ==
    /\ req[p].pc \in {"rejected", "finished"}
    /\ Free(p)
    /\ req' = [req EXCEPT ![p] = IdleRequest]
    /\ UNCHANGED <<redisClient, faultsLeft, redisKV, failedLoginsMemory, now, cleanupDue,
                   refRecord, blockedUntilSet, serial>>
    /\ UNCHANGED nonLimiterVars

\* cleanupExpiredRecords, lines 274-281
cleanupExpiredRecords ==
    [k \in Keys |->
        IF failedLoginsMemory[k] # NoRecord
           /\ now - failedLoginsMemory[k].firstAttempt > LOGIN_ATTEMPT_WINDOW
        THEN NoRecord ELSE failedLoginsMemory[k]]

\* line 284: setInterval(cleanupExpiredRecords, 5 * 60 * 1000): once per tick
Cleanup ==
    /\ cleanupDue
    /\ \A q \in DOMAIN req : ~MidChain(q)
    /\ failedLoginsMemory' = cleanupExpiredRecords
    /\ cleanupDue' = FALSE
    /\ UNCHANGED <<redisClient, faultsLeft, redisKV, now, req, refRecord,
                   blockedUntilSet, serial>>
    /\ UNCHANGED nonLimiterVars

\* Five minutes pass.  A request lasts far less than that (the longest progressive
\* delay is ten seconds), so none is in flight across a tick.  Redis drops the
\* entries whose TTL has run out.
Tick ==
    /\ now < MaxTime
    /\ ~cleanupDue
    /\ \A q \in DOMAIN req : req[q].pc = "idle"
    /\ now' = now + 1
    /\ cleanupDue' = TRUE
    /\ redisKV' = [k \in Keys |-> IF redisKV[k].expiresAt <= now + 1 THEN NoEntry ELSE redisKV[k]]
    /\ UNCHANGED <<redisClient, faultsLeft, failedLoginsMemory, req, refRecord,
                   blockedUntilSet, serial>>
    /\ UNCHANGED nonLimiterVars

InitLimiterWith(workers, modes, faults) ==
    /\ redisClient \in modes
    /\ faultsLeft = faults
    /\ redisKV = [k \in Keys |-> NoEntry]
    /\ failedLoginsMemory = [k \in Keys |-> NoRecord]
    /\ now = 0
    /\ cleanupDue = FALSE
    /\ req = [p \in workers |-> IdleRequest]
    /\ refRecord = [k \in Keys |-> NoRecord]
    /\ blockedUntilSet = [k \in Keys |-> 0]
    /\ serial = TRUE

RequestStep ==
    \/ \E p \in DOMAIN req, k \in Keys, failed \in FaultChoices : CheckGet(p, k, failed)
    \/ \E p \in DOMAIN req, failed \in FaultChoices : CheckDelete(p, failed)
    \/ \E p \in DOMAIN req, failed \in FaultChoices : DelayGet(p, failed)
    \/ \E p \in DOMAIN req : DelayFire(p)
    \/ \E p \in DOMAIN req, failed \in FaultChoices : TrackGet(p, failed)
    \/ \E p \in DOMAIN req, failed \in FaultChoices : TrackSet(p, failed)

(***************************************************************************)
(* Properties of the failed-login tracker                                  *)
(***************************************************************************)
\* C5: once the fifth failed login on a key inside the window has been answered, the
\* next login request for the key arriving inside the block window is answered 429
\* with a positive retryAfter and never reaches the login handler.
C5_NextRequestAfterFifthFailureBlocked ==
    \A p \in DOMAIN req :
        req[p].owed429 =>
            /\ req[p].pc = "rejected"
            /\ req[p].status = 429
            /\ req[p].retryAfter > 0

\* C6: with login requests handled one after another, from the moment a key is
\* blocked until BLOCK_DURATION later every login request for it is answered 429,
\* with the Redis store and with the in-process one, across the cleanup task.
C6_BlockedForWholeDuration ==
    \A p \in DOMAIN req :
        (serial /\ req[p].inBlock) =>
            /\ req[p].pc = "rejected"
            /\ req[p].status = 429

\* C7: in any interleaving of n >= 5 failing login requests on one key inside one
\* window no failure is lost: once all have completed the key's record counts n or
\* is blocked, and the key is blocked.
C7_NoFailureLost ==
    (\A p \in DOMAIN req : req[p].pc \in {"finished", "rejected"}) =>
        \A k \in Keys :
            LET record == getFailedLoginRecord(k, FALSE)
            IN /\ record # NoRecord
               /\ record.blocked
               /\ isLoginBlocked(record, now) = "blocked"

(***************************************************************************)
(* Token verification (utils/jwt.ts)                                       *)
(***************************************************************************)
\* Strings whose letter case matters are sequences of characters
Lower(c) ==
    CASE c = "N" -> "n" [] c = "O" -> "o" [] c = "E" -> "e"
      [] c = "R" -> "r" [] c = "S" -> "s" [] c = "H" -> "h" [] c = "P" -> "p"
      [] OTHER -> c
toLowerCase(str) == [i \in 1..Len(str) |-> Lower(str[i])]

RS256 == <<"R", "S", "2", "5", "6">>
none == <<"n", "o", "n", "e">>
NoneInAnyCase ==
    {<<a, b, c, d>> : a \in {"n", "N"}, b \in {"o", "O"}, c \in {"n", "N"}, d \in {"e", "E"}}
OtherAlgs ==
    { <<>>, RS256, <<"r", "s", "2", "5", "6">>, <<"R", "s", "2", "5", "6">>,
      <<"R", "S", "2", "5", "6", " ">>, <<"R", "S", "3", "8", "4">>,
      <<"R", "S", "5", "1", "2">>, <<"H", "S", "2", "5", "6">>, <<"H", "S", "3", "8", "4">>,
      <<"H", "S", "5", "1", "2">>, <<"E", "S", "2", "5", "6">>, <<"P", "S", "2", "5", "6">>,
      <<"n", "o", "n", "e", "e">>, <<"n", "o", "n">> }

\* What JSON.parse of the decoded first segment gives:
\*   json    "invalid" (SyntaxError), "null", or "object" (any other value)
\*   algType "missing", "falsy" (0, false, null), "truthy" (a non-string), "string"
Headers ==
    {[json |-> j, algType |-> "missing", alg |-> <<>>] : j \in {"invalid", "null", "object"}}
    \cup {[json |-> "object", algType |-> t, alg |-> <<>>] : t \in {"falsy", "truthy"}}
    \cup {[json |-> "object", algType |-> "string", alg |-> a] : a \in NoneInAnyCase \cup OtherAlgs}

\* Claims carried by the payload segment
Payloads ==
    {[sub |-> s, email |-> TRUE, role |-> r, family |-> f, type |-> t, fingerprint |-> fp] :
        s \in BOOLEAN, r \in BOOLEAN, f \in BOOLEAN, t \in {"", "refresh"}, fp \in {"", "fpA"}}
NoPayload == [sub |-> FALSE, email |-> FALSE, role |-> FALSE, family |-> FALSE,
              type |-> "", fingerprint |-> ""]

\* A token as the verifier sees it: the number of '.'-separated parts, the header,
\* the private key that made the signature ("" for an empty signature, "hmac" for
\* an HMAC keyed with the public key), the payload, and whether exp has passed
TokenInputs ==
    [parts : {2, 3, 4}, header : Headers,
     signedBy : {"", "access", "refresh", "hmac"}, payload : Payloads, expired : BOOLEAN]
NoJwt == [parts |-> 0, header |-> [json |-> "invalid", algType |-> "missing", alg |-> <<>>],
          signedBy |-> "", payload |-> NoPayload, expired |-> FALSE]

Verdict(fn, stage, error, payload) ==
    [fn |-> fn, stage |-> stage, error |-> error, payload |-> payload]
NoVerdict == Verdict("", "", "", NoPayload)

\* A header gate that knows only the lower-case spelling and has no allow-list
checkAlgorithmLax(header) ==
    IF header.json = "invalid" THEN "Invalid token header"
    ELSE IF header.json = "null" THEN "TypeError"
    ELSE IF header.algType \in {"missing", "falsy"} \/ header.alg = none
         THEN "Algorithm \"none\" is not allowed"
    ELSE "pass"

\* lines 128-146 and 180-197: the algorithm check on the parsed header
checkAlgorithm(header) ==
    IF header.json = "invalid" THEN "Invalid token header"
    ELSE IF header.json = "null" THEN "TypeError"
    ELSE IF header.algType \in {"missing", "falsy"}
            \/ (header.algType = "string" /\ header.alg = <<>>)
         THEN "Algorithm \"none\" is not allowed"
    ELSE IF header.algType = "truthy" THEN "TypeError"
    ELSE IF toLowerCase(header.alg) = none THEN "Algorithm \"none\" is not allowed"
    ELSE IF header.alg # RS256 THEN "Algorithm is not allowed. Only RS256 is supported."
    ELSE "pass"

\* jwt.verify(token, key, {algorithms: ['RS256']}): "" when it returns the payload
jwtVerify(token, key) ==
    IF token.parts # 3 \/ token.header.json # "object" THEN "jwt malformed"
    ELSE IF token.signedBy = "" THEN "jwt signature is required"
    ELSE IF ~(token.header.algType = "string" /\ token.header.alg = RS256)
         THEN "invalid algorithm"
    ELSE IF token.signedBy # key THEN "invalid signature"
    ELSE IF token.expired THEN "jwt expired"
    ELSE ""

\* verifyAccessToken, lines 117-165
verifyAccessToken(token, fingerprint) ==
    LET fn == "verifyAccessToken"
        p == token.payload
    IN IF token.parts # 3 THEN Verdict(fn, "format", "Invalid token format", NoPayload)
       ELSE IF checkAlgorithm(token.header) # "pass"
            THEN Verdict(fn, "header", checkAlgorithm(token.header), NoPayload)
       ELSE IF jwtVerify(token, "access") # ""
            THEN Verdict(fn, "verify", jwtVerify(token, "access"), NoPayload)
       ELSE IF ~p.sub \/ ~p.email \/ ~p.role
            THEN Verdict(fn, "claims", "Invalid token payload: missing required claims", NoPayload)
       ELSE IF fingerprint # "" /\ p.fingerprint # "" /\ p.fingerprint # fingerprint
            THEN Verdict(fn, "fingerprint", "Token fingerprint mismatch", NoPayload)
       ELSE Verdict(fn, "ok", "", p)

\* verifyRefreshToken, lines 171-210
verifyRefreshToken(token) ==
    LET fn == "verifyRefreshToken"
        p == token.payload
    IN IF token.parts # 3 THEN Verdict(fn, "format", "Invalid token format", NoPayload)
       ELSE IF checkAlgorithm(token.header) # "pass"
            THEN Verdict(fn, "header", checkAlgorithm(token.header), NoPayload)
       ELSE IF jwtVerify(token, "refresh") # ""
            THEN Verdict(fn, "verify", jwtVerify(token, "refresh"), NoPayload)
       ELSE IF ~p.sub \/ ~p.family \/ p.type # "refresh"
            THEN Verdict(fn, "claims", "Invalid refresh token payload", NoPayload)
       ELSE Verdict(fn, "ok", "", p)

VerifyAccess(fingerprint) ==
    /\ jwtResult = NoVerdict
    /\ jwtResult' = verifyAccessToken(jwtToken, fingerprint)
    /\ UNCHANGED jwtToken
    /\ UNCHANGED nonJwtVars

VerifyRefresh ==
    /\ jwtResult = NoVerdict
    /\ jwtResult' = verifyRefreshToken(jwtToken)
    /\ UNCHANGED jwtToken
    /\ UNCHANGED nonJwtVars

InitJwtWith(tokens) ==
    /\ jwtToken \in tokens
    /\ jwtResult = NoVerdict

\* C8: verifyAccessToken and verifyRefreshToken fail for every three-part token whose
\* header alg is missing, 'none' in any letter case, or anything but exactly 'RS256';
\* they fail at the header check, before the signature is looked at, and return no
\* payload.
C8_OnlyRS256PassesHeaderCheck ==
    ( /\ jwtResult # NoVerdict
      /\ jwtToken.parts = 3
      /\ ~(jwtToken.header.json = "object" /\ jwtToken.header.algType = "string"
           /\ jwtToken.header.alg = RS256) )
    => /\ jwtResult.stage = "header"
       /\ jwtResult.error # ""
       /\ jwtResult.payload = NoPayload

\* an unsigned token with alg 'nOnE' and a complete payload was handed to
\* verifyAccessToken
C8_Witness ==
    /\ jwtResult.fn = "verifyAccessToken"
    /\ jwtToken.parts = 3
    /\ jwtToken.header.alg = <<"n", "O", "n", "E">>
    /\ jwtToken.signedBy = ""
    /\ jwtToken.payload.sub /\ jwtToken.payload.role
    /\ jwtResult.stage = "header"

(***************************************************************************)
(* Audit collection (models/auditLog.model.ts)                             *)
(***************************************************************************)
MaxEntries == 3         \* audit entries written
MaxClock == 2           \* milliseconds explored

AuditWriters == {"a1", "a2"}
AuditKey == "auditKey"

\* previousHash of an entry written when no latest entry was found
NoHash == <<>>
NoSignature == <<>>

\* createAuditSignature, lines 194-208: HMAC-SHA256 over the six signed fields
createAuditSignature(data, secret) ==
    <<"hmac-sha256", secret,
      <<data.timestamp, data.eventType, data.userId, data.action, data.resource, data.result>>>>

\* Buffer.from(s).length: an HMAC-SHA256 hex digest has 64 bytes; any other stored
\* string <<"text", n, ...>> has n
byteLength(s) == IF Len(s) > 0 /\ s[1] = "hmac-sha256" THEN 64 ELSE IF Len(s) > 1 THEN s[2] ELSE 0

\* crypto.timingSafeEqual: a RangeError when the byte lengths differ
timingSafeEqual(a, b) ==
    IF byteLength(a) # byteLength(b) THEN "RangeError"
    ELSE IF a = b THEN "true" ELSE "false"

\* verifyAuditSignature, lines 213-219: what it returns, or the error it throws
verifyAuditSignature(log, secret) ==
    timingSafeEqual(createAuditSignature(log, secret), log.signature)

toISOString(timestamp) == <<"iso8601", timestamp>>
sha256(signature, iso) == <<"sha256", signature, iso>>

\* findOne().sort({timestamp: -1}): an entry with the greatest timestamp; which one
\* of several with the same timestamp is up to the database
Latest == {e \in auditLogs : \A o \in auditLogs : o.timestamp <= e.timestamp}

\* lines 226-232, for the entry findOne returned
hashOfLog(lastLog) == sha256(lastLog.signature, toISOString(lastLog.timestamp))

\* getPreviousLogHash, lines 224-237: the values it can return.  failed: the query
\* threw and the catch block returned undefined.
getPreviousLogHash(failed) ==
    IF failed \/ auditLogs = {} THEN {NoHash}
    ELSE {hashOfLog(lastLog) : lastLog \in Latest}

\* The document the writer builds; the model's save() is an insert for a new document
NewEntry(id, previousHash) ==
    LET data == [id |-> id, timestamp |-> auditClock, eventType |-> "auth.login",
                 userId |-> "alice", action |-> "login", resource |-> "auth",
                 result |-> "success", metadata |-> "ip-A",
                 signature |-> NoSignature, previousHash |-> previousHash]
    IN [data EXCEPT !.signature = createAuditSignature(data, AuditKey)]

IdleWriter == [pc |-> "idle", previousHash |-> NoHash]
Op(name, kind, rejected) == [name |-> name, kind |-> kind, rejected |-> rejected]
NoOp == Op("", "", FALSE)

\* writer protocol, step 1: look up the latest entry and compute previousHash
WriterLookup(w, failed) ==
    /\ writer[w].pc = "idle"
    /\ Len(written) + Cardinality({o \in DOMAIN writer : writer[o].pc = "insert"}) < MaxEntries
    /\ \E h \in getPreviousLogHash(failed) :
          writer' = [writer EXCEPT ![w] = [pc |-> "insert", previousHash |-> h]]
    /\ UNCHANGED <<auditLogs, auditClock, written, persisted, auditOp>>
    /\ UNCHANGED nonAuditVars

\* writer protocol, steps 2 and 3: populate, sign, insert; pre('save') lets a new
\* document through (lines 167-173)
WriterInsert(w) ==
    /\ writer[w].pc = "insert"
    /\ LET entry == NewEntry(Len(written) + 1, writer[w].previousHash)
       IN /\ auditLogs' = auditLogs \cup {entry}
          /\ persisted' = persisted \cup {entry}
          /\ written' = Append(written, entry.id)
    /\ writer' = [writer EXCEPT ![w] = IdleWriter]
    /\ auditOp' = Op("save", "insert", FALSE)
    /\ UNCHANGED auditClock
    /\ UNCHANGED nonAuditVars

\* a millisecond passes
ClockTick ==
    /\ auditClock < MaxClock
    /\ auditClock' = auditClock + 1
    /\ UNCHANGED <<auditLogs, writer, written, persisted, auditOp>>
    /\ UNCHANGED nonAuditVars

\* Operations the model offers on persisted entries.  A hook that passes an error
\* to next() rejects the operation, and the collection stays as it is.

\* lines 167-173: save() of a loaded document
SaveExisting ==
    /\ auditLogs # {}
    /\ auditOp' = Op("save", "update", TRUE)
    /\ UNCHANGED <<auditLogs, auditClock, writer, written, persisted>>
    /\ UNCHANGED nonAuditVars

\* lines 179-182
UpdateOne ==
    /\ auditLogs # {}
    /\ auditOp' = Op("updateOne", "update", TRUE)
    /\ UNCHANGED <<auditLogs, auditClock, writer, written, persisted>>
    /\ UNCHANGED nonAuditVars

\* lines 184-187 (findByIdAndUpdate runs the same hook)
FindOneAndUpdate ==
    /\ auditLogs # {}
    /\ auditOp' = Op("findOneAndUpdate", "update", TRUE)
    /\ UNCHANGED <<auditLogs, auditClock, writer, written, persisted>>
    /\ UNCHANGED nonAuditVars

\* updateMany: no hook is registered.  A path declared immutable is dropped from the
\* update; metadata (lines 122-126) and changes (118-121) are not declared immutable.
UpdateMany(path, value) ==
    /\ auditLogs # {}
    /\ auditLogs' = IF path = "metadata"
                    THEN {[e EXCEPT !.metadata = value] : e \in auditLogs}
                    ELSE auditLogs
    /\ auditOp' = Op("updateMany", "update", FALSE)
    /\ UNCHANGED <<auditClock, writer, written, persisted>>
    /\ UNCHANGED nonAuditVars

\* deleteOne / findOneAndDelete: no hook is registered
DeleteOne(name, e) ==
    /\ auditLogs' = auditLogs \ {e}
    /\ auditOp' = Op(name, "delete", FALSE)
    /\ UNCHANGED <<auditClock, writer, written, persisted>>
    /\ UNCHANGED nonAuditVars

\* deleteMany({}): no hook is registered
DeleteMany ==
    /\ auditLogs # {}
    /\ auditLogs' = {}
    /\ auditOp' = Op("deleteMany", "delete", FALSE)
    /\ UNCHANGED <<auditClock, writer, written, persisted>>
    /\ UNCHANGED nonAuditVars

InitAuditWith(writers) ==
    /\ auditLogs = {}
    /\ auditClock = 0
    /\ writer = [w \in writers |-> IdleWriter]
    /\ written = <<>>
    /\ persisted = {}
    /\ auditOp = NoOp

EntryWritten(i) == CHOOSE e \in persisted : e.id = written[i]

\* C9: of two entries a, b written one after the other by the process, also by
\* requests in flight at the same time, b.previousHash is SHA256(a.signature ||
\* a.timestamp in ISO-8601); no two entries carry the same previousHash.
C9_ChainLinksConsecutiveEntries ==
    /\ \A i \in 1..(Len(written) - 1) :
          EntryWritten(i + 1).previousHash
             = sha256(EntryWritten(i).signature, toISOString(EntryWritten(i).timestamp))
    /\ \A a, b \in auditLogs :
          (a # b /\ a.previousHash # NoHash) => a.previousHash # b.previousHash

\* C10: once an entry is persisted no operation of the model changes or removes it;
\* every update and delete, single or bulk, is rejected and leaves the collection
\* unchanged.
C10_PersistedEntriesImmutable ==
    /\ persisted \subseteq auditLogs
    /\ auditLogs \subseteq persisted
    /\ auditOp.kind \in {"update", "delete"} => auditOp.rejected

(***************************************************************************)
(* Account operations (services/auth.service.ts, auth.controller.ts)       *)
(***************************************************************************)
MaxSecureTokens == 3    \* generateSecureToken() values drawn
MaxSessions == 2        \* refresh sessions of the account alive at once

\* The document of one email address.  Tokens are numbered in the order
\* generateSecureToken() produced them; 0 stands for undefined.  twoFactor is
\* "off", "pending" (secret stored, not enabled) or "on".  An account of an
\* external provider exists from the start and is never local.
Absent ==
    [exists |-> FALSE, provider |-> "local", verified |-> FALSE, locked |-> FALSE,
     twoFactor |-> "off",
     emailVerificationToken |-> 0, emailVerificationLive |-> FALSE,
     passwordResetToken |-> 0, passwordResetLive |-> FALSE,
     tokenVersion |-> 0, sessions |-> 0]
ExternalAccount == [Absent EXCEPT !.exists = TRUE, !.provider = "google", !.verified = TRUE]

IsLocal(a) == a.exists /\ a.provider = "local"

\* What a service function did: the document it leaves, the tokens drawn, the error
\* it threw ("" when it returned), the kind of value it returned, the audit events
\* it wrote, whether it created a refresh session, whether it returned tokens
Ret(a, n, value, events, session, tokens) ==
    [account |-> a, secureTokens |-> n, error |-> "", value |-> value,
     events |-> events, session |-> session, tokens |-> tokens]
Throw(a, n, error, events, session) ==
    [account |-> a, secureTokens |-> n, error |-> error, value |-> "",
     events |-> events, session |-> session, tokens |-> FALSE]

\* the error a failing transport raises out of sendEmail (email.service.ts 85-88)
TransportError == "SMTP transport error"

\* registerUser, lines 57-117
registerUser(a, n, emailFails) ==
    IF a.exists THEN Throw(a, n, "Email already registered", <<>>, FALSE)
    ELSE Ret([Absent EXCEPT !.exists = TRUE, !.emailVerificationToken = n + 1,
                            !.emailVerificationLive = TRUE],
             n + 1, "registered", <<"auth.register">>, FALSE, FALSE)

\* A verifyEmail that leaves the token on the document
verifyEmailKeepsToken(a, n, token) ==
    IF a.exists /\ token # 0 /\ a.emailVerificationToken = token /\ a.emailVerificationLive
    THEN Ret([a EXCEPT !.verified = TRUE], n, "verified", <<"auth.email_verify">>, FALSE, FALSE)
    ELSE Throw(a, n, "Invalid or expired verification token", <<>>, FALSE)

\* verifyEmail, lines 119-150
verifyEmail(a, n, token) ==
    IF a.exists /\ token # 0 /\ a.emailVerificationToken = token /\ a.emailVerificationLive
    THEN Ret([a EXCEPT !.verified = TRUE, !.emailVerificationToken = 0,
                       !.emailVerificationLive = FALSE],
             n, "verified", <<"auth.email_verify">>, FALSE, FALSE)
    ELSE Throw(a, n, "Invalid or expired verification token", <<>>, FALSE)

\* resendVerificationEmail, lines 152-177
resendVerificationEmail(a, n, emailFails) ==
    IF ~IsLocal(a) THEN Ret(a, n, "generic", <<>>, FALSE, FALSE)
    ELSE IF a.verified THEN Throw(a, n, "Email is already verified", <<>>, FALSE)
    ELSE LET saved == [a EXCEPT !.emailVerificationToken = n + 1,
                                !.emailVerificationLive = TRUE]
         IN IF emailFails THEN Throw(saved, n + 1, TransportError, <<>>, FALSE)
            ELSE Ret(saved, n + 1, "sent", <<>>, FALSE, FALSE)

\* A loginUser that does not look at isEmailVerified
loginUserUnverified(a, n, passwordOk, locks, newDevice, emailFails) ==
    IF ~IsLocal(a) THEN Throw(a, n, "Invalid credentials", <<>>, FALSE)
    ELSE IF a.locked
         THEN (IF emailFails THEN Throw(a, n, TransportError, <<>>, FALSE)
               ELSE Throw(a, n, "Account is locked until <date>", <<>>, FALSE))
    ELSE IF ~passwordOk
         THEN Throw([a EXCEPT !.locked = locks], n, "Invalid credentials",
                    <<"security.failed_login">>, FALSE)
    ELSE IF a.twoFactor = "on"
         THEN Ret([a EXCEPT !.emailVerificationToken = n + 1, !.emailVerificationLive = TRUE],
                  n + 1, "requiresTwoFactor", <<>>, FALSE, FALSE)
    ELSE Ret([a EXCEPT !.sessions = @ + 1], n, "tokens", <<"auth.login">>, TRUE, TRUE)

\* loginUser, lines 190-335.  locks: incrementFailedLogin reached the lock threshold.
loginUser(a, n, passwordOk, locks, newDevice, emailFails) ==
    IF ~IsLocal(a) THEN Throw(a, n, "Invalid credentials", <<>>, FALSE)
    ELSE IF a.locked
         THEN (IF emailFails THEN Throw(a, n, TransportError, <<>>, FALSE)
               ELSE Throw(a, n, "Account is locked until <date>", <<>>, FALSE))
    ELSE IF ~passwordOk
         THEN Throw([a EXCEPT !.locked = locks], n, "Invalid credentials",
                    <<"security.failed_login">>, FALSE)
    ELSE IF ~a.verified THEN Ret(a, n, "requiresEmailVerification", <<>>, FALSE, FALSE)
    ELSE IF a.twoFactor = "on"
         THEN Ret([a EXCEPT !.emailVerificationToken = n + 1, !.emailVerificationLive = TRUE],
                  n + 1, "requiresTwoFactor", <<>>, FALSE, FALSE)
    ELSE Ret([a EXCEPT !.sessions = @ + 1], n, "tokens", <<"auth.login">>, TRUE, TRUE)

\* loginWith2FA, lines 337-426
loginWith2FA(a, n, tempToken, codeOk) ==
    IF ~(a.exists /\ tempToken # 0 /\ a.emailVerificationToken = tempToken
         /\ a.emailVerificationLive /\ a.twoFactor = "on")
    THEN Throw(a, n, "Invalid or expired token", <<>>, FALSE)
    ELSE IF ~codeOk THEN Throw(a, n, "Invalid 2FA code", <<"security.failed_login">>, FALSE)
    ELSE Ret([a EXCEPT !.emailVerificationToken = 0, !.emailVerificationLive = FALSE,
                       !.sessions = @ + 1],
             n, "tokens", <<>>, TRUE, TRUE)

\* refreshAccessToken, lines 432-496, by its outcome (Spec has its steps).
\* valid: the presented token passes validateRefreshToken, verifyRefreshToken and
\* the tokenVersion check; the old session is revoked and a new one created.
refreshAccessToken(a, n, valid) ==
    IF a.exists /\ a.sessions > 0 /\ valid
    THEN Ret(a, n, "tokens", <<>>, TRUE, TRUE)
    ELSE Throw(a, n, "Invalid refresh token", <<>>, FALSE)

\* logoutUser, lines 501-506
logoutUser(a, n) ==
    Ret([a EXCEPT !.sessions = IF @ > 0 THEN @ - 1 ELSE 0], n, "loggedOut", <<>>, FALSE, FALSE)

\* requestPasswordReset, lines 521-542.  tokenFails: generateSecureToken threw.
requestPasswordReset(a, n, tokenFails, emailFails) ==
    IF ~IsLocal(a) THEN Ret(a, n, "generic", <<>>, FALSE, FALSE)
    ELSE IF tokenFails THEN Throw(a, n, "randomBytes failed", <<>>, FALSE)
    ELSE LET saved == [a EXCEPT !.passwordResetToken = n + 1, !.passwordResetLive = TRUE]
         IN IF emailFails THEN Throw(saved, n + 1, TransportError, <<>>, FALSE)
            ELSE Ret(saved, n + 1, "sent", <<>>, FALSE, FALSE)

\* resetPassword, lines 557-594.  reuse: the new password is in passwordHistory.
resetPassword(a, n, token, reuse, emailFails) ==
    IF ~(a.exists /\ token # 0 /\ a.passwordResetToken = token /\ a.passwordResetLive)
    THEN Throw(a, n, "Invalid or expired reset token", <<>>, FALSE)
    ELSE IF reuse
         THEN Throw(a, n, "Cannot reuse a recent password. Please choose a different password.",
                    <<>>, FALSE)
    ELSE LET changed == [a EXCEPT !.passwordResetToken = 0, !.passwordResetLive = FALSE,
                                  !.tokenVersion = @ + 1, !.sessions = 0]
         IN IF emailFails THEN Throw(changed, n, TransportError, <<>>, FALSE)
            ELSE Ret(changed, n, "reset", <<>>, FALSE, FALSE)

\* changePassword, lines 596-634
changePassword(a, n, currentOk, reuse, emailFails) ==
    IF ~a.exists THEN Throw(a, n, "User not found", <<>>, FALSE)
    ELSE IF ~currentOk THEN Throw(a, n, "Current password is incorrect", <<>>, FALSE)
    ELSE IF reuse THEN Throw(a, n, "Cannot reuse a recent password", <<>>, FALSE)
    ELSE LET changed == [a EXCEPT !.tokenVersion = @ + 1, !.sessions = 0]
         IN IF emailFails THEN Throw(changed, n, TransportError, <<>>, FALSE)
            ELSE Ret(changed, n, "changed", <<>>, FALSE, FALSE)

\* enable2FA, lines 642-668
enable2FA(a, n) ==
    IF ~a.exists THEN Throw(a, n, "User not found", <<>>, FALSE)
    ELSE IF a.twoFactor = "on" THEN Throw(a, n, "2FA is already enabled", <<>>, FALSE)
    ELSE Ret([a EXCEPT !.twoFactor = "pending"], n, "setup", <<>>, FALSE, FALSE)

\* verify2FASetup without its verify2FACode check
verify2FASetupUnchecked(a, n, codeOk, emailFails) ==
    IF ~a.exists \/ a.twoFactor = "off" THEN Throw(a, n, "2FA setup not initiated", <<>>, FALSE)
    ELSE IF a.twoFactor = "on" THEN Throw(a, n, "2FA is already enabled", <<>>, FALSE)
    ELSE LET enabled == [a EXCEPT !.twoFactor = "on"]
         IN IF emailFails THEN Throw(enabled, n, TransportError, <<>>, FALSE)
            ELSE Ret(enabled, n, "enabled", <<>>, FALSE, FALSE)

\* verify2FASetup, lines 670-704
verify2FASetup(a, n, codeOk, emailFails) ==
    IF ~a.exists \/ a.twoFactor = "off" THEN Throw(a, n, "2FA setup not initiated", <<>>, FALSE)
    ELSE IF a.twoFactor = "on" THEN Throw(a, n, "2FA is already enabled", <<>>, FALSE)
    ELSE IF ~codeOk THEN Throw(a, n, "Invalid verification code", <<>>, FALSE)
    ELSE LET enabled == [a EXCEPT !.twoFactor = "on"]
         IN IF emailFails THEN Throw(enabled, n, TransportError, <<>>, FALSE)
            ELSE Ret(enabled, n, "enabled", <<>>, FALSE, FALSE)

\* disable2FA, lines 706-747.  passwordOk: comparePassword; codeOk: the code is a
\* valid TOTP or a backup code.  The secret and the backup codes are dropped.
disable2FA(a, n, passwordOk, codeOk) ==
    IF ~a.exists THEN Throw(a, n, "User not found", <<>>, FALSE)
    ELSE IF a.twoFactor # "on" THEN Throw(a, n, "2FA is not enabled", <<>>, FALSE)
    ELSE IF ~passwordOk THEN Throw(a, n, "Invalid password", <<>>, FALSE)
    ELSE IF ~codeOk THEN Throw(a, n, "Invalid 2FA code", <<>>, FALSE)
    ELSE Ret([a EXCEPT !.twoFactor = "off"], n, "disabled", <<>>, FALSE, FALSE)

\* oauth2CallbackHandler (also githubCallbackHandler, discordCallbackHandler) of
\* oauth2.controller: passport has put the provider's user into req.user; the
\* handler signs both tokens and stores the refresh session.  hasUser: req.user is set.
oauth2CallbackHandler(a, n, hasUser) ==
    IF ~hasUser THEN Throw(a, n, "auth_failed", <<>>, FALSE)
    ELSE Ret([a EXCEPT !.sessions = @ + 1], n, "tokens", <<>>, TRUE, TRUE)

(***************************************************************************)
(* Handlers of auth.controller.ts: the response for what the service did   *)
(***************************************************************************)
Response(status, body) == [status |-> status, body |-> body]
NoResponse == Response(0, "")

\* sendSuccess(res, okStatus, {message: okBody}) or, in the catch block,
\* sendError(res, errorStatus, error.message)
Answer(r, okStatus, okBody, errorStatus) ==
    IF r.error = "" THEN Response(okStatus, okBody) ELSE Response(errorStatus, r.error)

\* lines 81-96
registerHandler(r) ==
    Answer(r, 201, "Registration successful. Please check your email to verify your account.", 400)
\* lines 98-110
verifyEmailHandler(r) == Answer(r, 200, "Email verified successfully. You can now log in.", 400)
\* lines 112-124
resendVerificationHandler(r) ==
    Answer(r, 200, "Verification email sent. Please check your inbox.", 400)
\* lines 128-172
loginHandler(r) ==
    IF r.error # "" THEN Response(401, r.error)
    ELSE IF r.value = "requiresEmailVerification"
         THEN Response(403, "Please verify your email before logging in")
    ELSE IF r.value = "requiresTwoFactor" THEN Response(200, "2FA required")
    ELSE Response(200, "Login successful")
\* lines 174-200
login2FAHandler(r) == Answer(r, 200, "Login successful", 401)
\* lines 204-229
refreshHandler(r) == Answer(r, 200, "tokens", 401)
\* lines 231-249
logoutHandler(r) == Response(200, "Logged out successfully")
\* A handler that reports what requestPasswordReset did
forgotPasswordHandlerTelling(r) == Answer(r, 200, r.value, 400)
\* lines 253-269
forgotPasswordHandler(r) ==
    Response(200, "If the email exists, a password reset link has been sent.")
\* lines 287-299
resetPasswordHandler(r) ==
    Answer(r, 200, "Password reset successful. Please login with your new password.", 400)
\* lines 301-319
changePasswordHandler(r) ==
    Answer(r, 200, "Password changed successfully. Please login again with your new password.", 400)
\* lines 323-341
enable2FAHandler(r) == Answer(r, 200, "Scan the QR code with your authenticator app", 400)
\* lines 343-359
verify2FASetupHandler(r) == Answer(r, 200, "2FA enabled successfully", 400)
\* lines 361-377
disable2FAHandler(r) == Answer(r, 200, "2FA disabled successfully", 400)

(***************************************************************************)
(* One request per action: the route's guards, the service, the handler    *)
(***************************************************************************)
\* What is kept of the last request.  ifSent is the outcome of the same request
\* on the same document with a working mail transport; ifAbsent is the response
\* to the same request for an address that has no document.
Outcome(response, a) == [response |-> response, account |-> a]
Done(op, r, response, ifSent, ifAbsent, flags) ==
    [op |-> op, response |-> response, error |-> r.error, events |-> r.events,
     session |-> r.session, tokens |-> r.tokens,
     existing |-> account.exists, changed |-> r.account # account,
     ifSent |-> ifSent, ifAbsent |-> ifAbsent,
     emailFailed |-> flags.emailFailed, eligible |-> flags.eligible,
     repeat |-> flags.repeat, wrongPassword |-> flags.wrongPassword,
     codeOk |-> flags.codeOk]
NoFlags ==
    [emailFailed |-> FALSE, eligible |-> FALSE, repeat |-> FALSE, wrongPassword |-> FALSE,
     codeOk |-> FALSE]
NoCall ==
    [op |-> "none", response |-> NoResponse, error |-> "", events |-> <<>>,
     session |-> FALSE, tokens |-> FALSE, existing |-> FALSE, changed |-> FALSE,
     ifSent |-> Outcome(NoResponse, Absent), ifAbsent |-> NoResponse,
     emailFailed |-> FALSE, eligible |-> FALSE, repeat |-> FALSE, wrongPassword |-> FALSE,
     codeOk |-> FALSE]

\* authenticate let the request through: the token's user exists and is not locked
Authenticated(a) == a.exists /\ ~a.locked

\* POST /register
PostRegister(emailFails) ==
    /\ secureTokens < MaxSecureTokens
    /\ LET r == registerUser(account, secureTokens, emailFails)
           sent == registerUser(account, secureTokens, FALSE)
           absent == registerUser(Absent, secureTokens, emailFails)
       IN /\ account' = r.account
          /\ secureTokens' = r.secureTokens
          /\ call' = Done("register", r, registerHandler(r),
                          Outcome(registerHandler(sent), sent.account),
                          registerHandler(absent),
                          [NoFlags EXCEPT !.emailFailed = emailFails])
    /\ UNCHANGED <<consumed, tempTokens, nonAccountVars>>

\* POST /verify-email
PostVerifyEmail(token) ==
    /\ LET r == verifyEmail(account, secureTokens, token)
       IN /\ account' = r.account
          /\ secureTokens' = r.secureTokens
          /\ call' = Done("verifyEmail", r, verifyEmailHandler(r),
                          Outcome(verifyEmailHandler(r), r.account), verifyEmailHandler(r),
                          [NoFlags EXCEPT !.repeat = token \in consumed])
          /\ consumed' = IF r.error = "" THEN consumed \cup {token} ELSE consumed
    /\ UNCHANGED <<tempTokens, nonAccountVars>>

\* POST /resend-verification
PostResendVerification(emailFails) ==
    /\ secureTokens < MaxSecureTokens
    /\ LET r == resendVerificationEmail(account, secureTokens, emailFails)
           sent == resendVerificationEmail(account, secureTokens, FALSE)
           absent == resendVerificationEmail(Absent, secureTokens, emailFails)
       IN /\ account' = r.account
          /\ secureTokens' = r.secureTokens
          /\ call' = Done("resendVerification", r, resendVerificationHandler(r),
                          Outcome(resendVerificationHandler(sent), sent.account),
                          resendVerificationHandler(absent),
                          [NoFlags EXCEPT !.emailFailed = emailFails])
    /\ UNCHANGED <<consumed, tempTokens, nonAccountVars>>

\* POST /login
PostLogin(passwordOk, locks, newDevice, emailFails) ==
    /\ secureTokens < MaxSecureTokens
    /\ account.sessions < MaxSessions
    /\ LET r == loginUser(account, secureTokens, passwordOk, locks, newDevice, emailFails)
           sent == loginUser(account, secureTokens, passwordOk, locks, newDevice, FALSE)
           absent == loginUser(Absent, secureTokens, passwordOk, locks, newDevice, emailFails)
       IN /\ tempTokens' = IF r.value = "requiresTwoFactor"
                            THEN tempTokens \cup {r.secureTokens} ELSE tempTokens
          /\ account' = r.account
          /\ secureTokens' = r.secureTokens
          /\ call' = Done("login", r, loginHandler(r),
                          Outcome(loginHandler(sent), sent.account), loginHandler(absent),
                          [NoFlags EXCEPT !.emailFailed = emailFails,
                                          !.wrongPassword = ~passwordOk,
                                          !.eligible = /\ IsLocal(account)
                                                       /\ ~account.locked
                                                       /\ passwordOk
                                                       /\ account.verified
                                                       /\ account.twoFactor # "on"])
    /\ UNCHANGED <<consumed, nonAccountVars>>

\* POST /login/2fa
PostLogin2FA(tempToken, codeOk) ==
    /\ account.sessions < MaxSessions
    /\ LET r == loginWith2FA(account, secureTokens, tempToken, codeOk)
       IN /\ account' = r.account
          /\ secureTokens' = r.secureTokens
          /\ call' = Done("login2FA", r, login2FAHandler(r),
                          Outcome(login2FAHandler(r), r.account), login2FAHandler(r),
                          [NoFlags EXCEPT !.codeOk = codeOk,
                                          !.eligible = /\ tempToken \in tempTokens
                                                       /\ account.emailVerificationToken = tempToken
                                                       /\ account.emailVerificationLive])
    /\ UNCHANGED <<consumed, tempTokens, nonAccountVars>>

\* POST /refresh
PostRefresh(valid) ==
    /\ LET r == refreshAccessToken(account, secureTokens, valid)
       IN /\ account' = r.account
          /\ secureTokens' = r.secureTokens
          /\ call' = Done("refresh", r, refreshHandler(r),
                          Outcome(refreshHandler(r), r.account), refreshHandler(r), NoFlags)
    /\ UNCHANGED <<consumed, tempTokens, nonAccountVars>>

\* POST /logout
PostLogout ==
    /\ Authenticated(account)
    /\ LET r == logoutUser(account, secureTokens)
       IN /\ account' = r.account
          /\ secureTokens' = r.secureTokens
          /\ call' = Done("logout", r, logoutHandler(r),
                          Outcome(logoutHandler(r), r.account), logoutHandler(r), NoFlags)
    /\ UNCHANGED <<consumed, tempTokens, nonAccountVars>>

\* POST /forgot-password
PostForgotPassword(tokenFails, emailFails) ==
    /\ secureTokens < MaxSecureTokens
    /\ LET r == requestPasswordReset(account, secureTokens, tokenFails, emailFails)
           sent == requestPasswordReset(account, secureTokens, tokenFails, FALSE)
           absent == requestPasswordReset(Absent, secureTokens, tokenFails, emailFails)
       IN /\ account' = r.account
          /\ secureTokens' = r.secureTokens
          /\ call' = Done("forgotPassword", r, forgotPasswordHandler(r),
                          Outcome(forgotPasswordHandler(sent), sent.account),
                          forgotPasswordHandler(absent),
                          [NoFlags EXCEPT !.emailFailed = emailFails])
    /\ UNCHANGED <<consumed, tempTokens, nonAccountVars>>

\* POST /reset-password
PostResetPassword(token, reuse, emailFails) ==
    /\ account.tokenVersion < MaxTokenVersion
    /\ LET r == resetPassword(account, secureTokens, token, reuse, emailFails)
           sent == resetPassword(account, secureTokens, token, reuse, FALSE)
       IN /\ account' = r.account
          /\ secureTokens' = r.secureTokens
          /\ call' = Done("resetPassword", r, resetPasswordHandler(r),
                          Outcome(resetPasswordHandler(sent), sent.account),
                          resetPasswordHandler(r),
                          [NoFlags EXCEPT !.emailFailed = emailFails])
    /\ UNCHANGED <<consumed, tempTokens, nonAccountVars>>

\* POST /change-password
PostChangePassword(currentOk, reuse, emailFails) ==
    /\ Authenticated(account) /\ account.verified
    /\ account.tokenVersion < MaxTokenVersion
    /\ LET r == changePassword(account, secureTokens, currentOk, reuse, emailFails)
           sent == changePassword(account, secureTokens, currentOk, reuse, FALSE)
       IN /\ account' = r.account
          /\ secureTokens' = r.secureTokens
          /\ call' = Done("changePassword", r, changePasswordHandler(r),
                          Outcome(changePasswordHandler(sent), sent.account),
                          changePasswordHandler(r),
                          [NoFlags EXCEPT !.emailFailed = emailFails])
    /\ UNCHANGED <<consumed, tempTokens, nonAccountVars>>

\* POST /2fa/enable
PostEnable2FA ==
    /\ Authenticated(account) /\ account.verified
    /\ LET r == enable2FA(account, secureTokens)
       IN /\ account' = r.account
          /\ secureTokens' = r.secureTokens
          /\ call' = Done("enable2FA", r, enable2FAHandler(r),
                          Outcome(enable2FAHandler(r), r.account), enable2FAHandler(r), NoFlags)
    /\ UNCHANGED <<consumed, tempTokens, nonAccountVars>>

\* POST /2fa/verify-setup
PostVerify2FASetup(codeOk, emailFails) ==
    /\ Authenticated(account) /\ account.verified
    /\ LET r == verify2FASetup(account, secureTokens, codeOk, emailFails)
           sent == verify2FASetup(account, secureTokens, codeOk, FALSE)
       IN /\ account' = r.account
          /\ secureTokens' = r.secureTokens
          /\ call' = Done("verify2FASetup", r, verify2FASetupHandler(r),
                          Outcome(verify2FASetupHandler(sent), sent.account),
                          verify2FASetupHandler(r),
                          [NoFlags EXCEPT !.emailFailed = emailFails, !.codeOk = codeOk])
    /\ UNCHANGED <<consumed, tempTokens, nonAccountVars>>

\* POST /2fa/disable
PostDisable2FA(passwordOk, codeOk) ==
    /\ Authenticated(account)
    /\ LET r == disable2FA(account, secureTokens, passwordOk, codeOk)
       IN /\ account' = r.account
          /\ secureTokens' = r.secureTokens
          /\ call' = Done("disable2FA", r, disable2FAHandler(r),
                          Outcome(disable2FAHandler(r), r.account), disable2FAHandler(r),
                          [NoFlags EXCEPT !.codeOk = codeOk])
    /\ UNCHANGED <<consumed, tempTokens, nonAccountVars>>

\* GET /oauth/<provider>/callback, after passport.authenticate: the redirect to
\* the client carries the access token, the cookie the refresh token
OAuthCallback(hasUser) ==
    /\ account.exists /\ account.provider # "local"
    /\ account.sessions < MaxSessions
    /\ LET r == oauth2CallbackHandler(account, secureTokens, hasUser)
           redirect == IF r.error = "" THEN Response(302, "/auth/callback?token")
                       ELSE Response(302, "/login?error")
       IN /\ account' = r.account
          /\ secureTokens' = r.secureTokens
          /\ call' = Done("oauthCallback", r, redirect,
                          Outcome(redirect, r.account), redirect, NoFlags)
    /\ UNCHANGED <<consumed, tempTokens, nonAccountVars>>

\* Time passes: emailVerificationExpires / passwordResetExpires / accountLockedUntil
\* fall into the past
ExpireVerificationToken ==
    /\ account.emailVerificationLive
    /\ account' = [account EXCEPT !.emailVerificationLive = FALSE]
    /\ call' = NoCall
    /\ UNCHANGED <<secureTokens, consumed, tempTokens, nonAccountVars>>
ExpireResetToken ==
    /\ account.passwordResetLive
    /\ account' = [account EXCEPT !.passwordResetLive = FALSE]
    /\ call' = NoCall
    /\ UNCHANGED <<secureTokens, consumed, tempTokens, nonAccountVars>>
Unlock ==
    /\ account.locked
    /\ account' = [account EXCEPT !.locked = FALSE]
    /\ call' = NoCall
    /\ UNCHANGED <<secureTokens, consumed, tempTokens, nonAccountVars>>

InitAccountWith(accounts) ==
    /\ account \in accounts
    /\ secureTokens = 0
    /\ call = NoCall
    /\ consumed = {}
    /\ tempTokens = {}

(***************************************************************************)
(* Properties of the account operations                                    *)
(***************************************************************************)
AuditedOperations ==
    {"register", "verifyEmail", "login", "login2FA", "refresh", "logout",
     "resetPassword", "changePassword"}

\* C11: every call of Register, VerifyEmail, Login, Login2FA, Refresh, Logout,
\* ResetPassword and ChangePassword that has reached its outcome, success or
\* failure, has written exactly one audit event
C11_OneAuditEventPerCall ==
    call.op \in AuditedOperations => Len(call.events) = 1

EmailingOperations ==
    {"resendVerification", "login", "forgotPassword", "resetPassword", "changePassword",
     "verify2FASetup"}

\* C12: when the mail transport fails during ResendVerification, Login,
\* RequestPasswordReset, ResetPassword, ChangePassword or Verify2FASetup, the
\* response and the document left behind are those of the same request with a
\* working transport
C12_EmailFailureChangesNothing ==
    (call.op \in EmailingOperations /\ call.emailFailed)
        => (call.response = call.ifSent.response /\ account = call.ifSent.account)

C17_WrongPasswordLoginDisclosesNothing ==
    (call.op = "login" /\ call.wrongPassword /\ call.existing)
        => call.response = call.ifAbsent

\* C18: a registration for an address that is already registered is answered
\* exactly as the same registration for a new address
C18_RegisterDisclosesNothing ==
    (call.op = "register" /\ call.existing) => call.response = call.ifAbsent

\* C19: once VerifyEmail(t) has succeeded, every later VerifyEmail(t) fails with
\* 'Invalid or expired verification token', changes nothing on the document and
\* writes no audit event
C19_VerifyEmailConsumesToken ==
    (call.op = "verifyEmail" /\ call.repeat)
        => /\ call.response = Response(400, "Invalid or expired verification token")
           /\ ~call.changed
           /\ call.events = <<>>
\* a second VerifyEmail(t) after a successful one
C19_Witness ==
    call.op = "verifyEmail" /\ call.repeat /\ account.verified

\* C20: a login returns tokens or adds a refresh session only if a local account
\* exists, it is not locked, the password matches, the email is verified and 2FA
\* is not enabled
C20_LoginOnlyWhenEligible ==
    [][call'.op = "login"
         => ((call'.tokens \/ call'.session \/ account'.sessions > account.sessions)
                => call'.eligible)]_vars
\* a login that returned tokens and created a session
C20_Witness ==
    call.op = "login" /\ call.tokens /\ call.session /\ account.sessions > 0

\* C21: while 2FA is enabled, a request other than a refresh issues tokens only
\* if it is a Login2FA whose tempToken was minted by Login for this user, is
\* still live, and whose code is valid
C21_TokensOnlyThroughLogin2FA ==
    [][(account.twoFactor = "on" /\ call'.tokens /\ call'.op # "refresh")
         => (call'.op = "login2FA" /\ call'.eligible /\ call'.codeOk)]_vars
\* C21, second half: a Login2FA with a wrong code issues nothing
C21_WrongCodeIssuesNothing ==
    (call.op = "login2FA" /\ ~call.codeOk) => (~call.tokens /\ ~call.session)
\* a Login2FA with a minted, live tempToken and a valid code returned tokens
C21_Witness ==
    call.op = "login2FA" /\ call.eligible /\ call.codeOk /\ call.tokens

\* C22: twoFactorEnabled turns true only in a Verify2FASetup step whose code was
\* verified against the secret Enable2FA stored; Enable2FA itself and a
\* Verify2FASetup with a wrong code leave it false
C22_EnabledOnlyByVerifiedSetup ==
    [][/\ (account.twoFactor # "on" /\ account'.twoFactor = "on")
            => (call'.op = "verify2FASetup" /\ call'.codeOk /\ account.twoFactor = "pending")
       /\ (account.twoFactor # "on" /\ call'.op = "enable2FA") => account'.twoFactor # "on"
       /\ (account.twoFactor # "on" /\ call'.op = "verify2FASetup" /\ ~call'.codeOk)
            => account'.twoFactor # "on"]_vars
\* a Verify2FASetup with a valid code has switched 2FA on
C22_Witness ==
    call.op = "verify2FASetup" /\ call.codeOk /\ account.twoFactor = "on"

(***************************************************************************)
(* Payment intents (payment.service, anomaly.service, payment.validator)   *)
(***************************************************************************)
MaxPaymentEvents == 11  \* payment events of the user within the last 24 hours
MaxProviderFailures == 1 \* orders whose provider call failed

NoIp == 0               \* metadata.ip undefined
ForbiddenKeys == {"amount", "currency", "price", "total", "discount"}
BodyKeys == {"items", "note"} \cup ForbiddenKeys

\* A request body: its top-level keys and the keys an item carries besides
\* productId and quantity.  The well-formed body, a body with a key the schema does
\* not know and a price inside an item, bodies with one forbidden key, a body
\* without items and the price-tamper body {items, amount, currency}.
Body(keys, itemKeys) == [keys |-> keys, itemKeys |-> itemKeys]
Bodies ==
    {Body({"items"}, {}), Body({"items", "note"}, {"price"}),
     Body({"amount"}, {}), Body({"items", "amount", "currency"}, {})}
    \cup {Body({"items", k}, {}) : k \in ForbiddenKeys}

\* A schema in which the five keys are not declared: stripUnknown removes them
createPaymentIntentSchemaLax(body) ==
    IF "items" \notin body.keys
    THEN [error |-> "items is required", value |-> body]
    ELSE [error |-> "", value |-> Body({"items"}, {})]

\* createPaymentIntentSchema.validate(body): items is required; a declared
\* forbidden key that is present is an error; keys the schema does not declare
\* are stripped, in the body and in each item (stripUnknown)
createPaymentIntentSchema(body) ==
    IF "items" \notin body.keys
    THEN [error |-> "items is required", value |-> body]
    ELSE IF body.keys \cap ForbiddenKeys # {}
    THEN [error |-> "cannot be specified by client", value |-> body]
    ELSE [error |-> "", value |-> Body({"items"}, {})]

\* audit events payment.initiated / payment.failed of the user in the last 24
\* hours and the distinct metadata.ip values on them
NoHistory == [initiated |-> 0, failed |-> 0, ips |-> {}]
NoOrders == [count |-> 0, intents |-> 0]

\* detectPaymentFraud, lines 327-355: the sum of the signals that fire
riskSignals(h, amount, ip) ==
    (IF h.failed > 3 THEN 50 ELSE 0)
    + (IF amount > 5000 THEN 20 ELSE 0)
    + (IF h.initiated + h.failed > 10 THEN 40 ELSE 0)
    + (IF ip # NoIp /\ h.initiated + h.failed > 0 /\ Cardinality(h.ips) > 5
       THEN 30 ELSE 0)

\* auditLogSchema.riskScore, min 0 and max 100: the insert of an entry with a
\* riskScore outside is refused by the validator; dbFails: the database refused
\* the insert
auditWriteFails(riskScore, dbFails) == dbFails \/ riskScore < 0 \/ riskScore > 100

\* An audit service that passes a failed write on to its caller
logSecurityEventRejecting(writeFails) == IF writeFails THEN "rejected" ELSE "resolved"
\* audit.service logSecurityEvent: a failed write is logged and the call resolves
logSecurityEvent(writeFails) == "resolved"

\* detectPaymentFraud: the riskScore it returns.  queryFails: AuditLog.find
\* threw and the catch block answered riskScore 0; the catch block answers the
\* same when the awaited logSecurityEvent of line 360 rejects.
detectPaymentFraud(h, amount, ip, queryFails, dbFails) ==
    IF queryFails THEN 0
    ELSE LET riskScore == riskSignals(h, amount, ip)
         IN IF riskScore >= 60
               /\ logSecurityEvent(auditWriteFails(riskScore, dbFails)) = "rejected"
            THEN 0 ELSE riskScore

\* A gate that lets a score of exactly 80 through
FraudGateAbove(riskScore) == riskScore > 80
\* if (fraudCheck.riskScore >= 80)
FraudGate(riskScore) == riskScore >= 80

NotScored == 0 - 1
PayResult(h, o, error, score) == [history |-> h, orders |-> o, error |-> error, score |-> score]

\* createPaymentIntent.  available: every product was found active;
\* totalAmount: the sum of server-side price * quantity; providerFails:
\* stripe.paymentIntents.create threw.
createPaymentIntent(h, o, available, totalAmount, ip, queryFails, dbFails, providerFails) ==
    IF ~available THEN PayResult(h, o, "One or more products are unavailable", NotScored)
    ELSE IF totalAmount <= 0
    THEN PayResult(h, o, "Total amount must be greater than zero", NotScored)
    ELSE LET riskScore == detectPaymentFraud(h, totalAmount, ip, queryFails, dbFails)
             ordered == [o EXCEPT !.count = @ + 1]
             logged == [h EXCEPT !.initiated = @ + 1,
                                 !.ips = IF ip = NoIp THEN @ ELSE @ \cup {ip}]
         IN IF FraudGate(riskScore)
            THEN PayResult(h, o, "Payment flagged for review. Please contact support.",
                           riskScore)
            ELSE IF providerFails
            THEN PayResult(logged, ordered, "provider error", riskScore)
            ELSE PayResult(logged, [ordered EXCEPT !.intents = @ + 1], "", riskScore)

NoPayCall ==
    [op |-> "none", status |-> 0, error |-> "", score |-> NotScored, body |-> Body({}, {}),
     signals |-> NotScored, auditWriteFailed |-> FALSE]

Amounts == {0, 100, 6000}
\* the addresses a request can come from, up to renaming: none, one seen
\* before, one not seen before
RequestIps(h) == {NoIp, 1, Cardinality(h.ips) + 1}
\* What a validated request meets: product availability, the server-side total,
\* the client address, a failing audit query, a failing audit insert, a failing
\* provider call.  Inputs that the code never reads on the path taken are fixed.
PaymentInputs(h, o) ==
    {in \in [available : BOOLEAN, totalAmount : Amounts, ip : RequestIps(h),
             queryFails : BOOLEAN, dbFails : BOOLEAN, providerFails : BOOLEAN] :
        /\ ~in.available => in.totalAmount = 100
        /\ (~in.available \/ in.totalAmount = 0)
              => (in.ip = NoIp /\ ~in.queryFails /\ ~in.providerFails)
        /\ (~in.available \/ in.totalAmount = 0 \/ in.queryFails
              \/ riskSignals(h, in.totalAmount, in.ip) < 60) => ~in.dbFails
        /\ in.providerFails => o.count - o.intents < MaxProviderFailures}

\* POST /payments/create-intent: validateRequest(createPaymentIntentSchema),
\* then the handler calls createPaymentIntent with the validated items
PostCreateIntent(body) ==
    /\ payHistory.initiated + payHistory.failed < MaxPaymentEvents
    /\ LET v == createPaymentIntentSchema(body)
       IN IF v.error # ""
          THEN /\ payCall' = [op |-> "createIntent", status |-> 400, error |-> v.error,
                              score |-> NotScored, body |-> body,
                              signals |-> NotScored, auditWriteFailed |-> FALSE]
               /\ UNCHANGED <<payHistory, orders>>
          ELSE \E in \in PaymentInputs(payHistory, orders) :
                 LET r == createPaymentIntent(payHistory, orders, in.available,
                                              in.totalAmount, in.ip, in.queryFails,
                                              in.dbFails, in.providerFails)
                     summed == r.score # NotScored /\ ~in.queryFails
                     signals == riskSignals(payHistory, in.totalAmount, in.ip)
                 IN /\ payHistory' = r.history
                    /\ orders' = r.orders
                    /\ payCall' = [op |-> "createIntent",
                                   status |-> IF r.error = "" THEN 201 ELSE 400,
                                   error |-> r.error, score |-> r.score, body |-> body,
                                   signals |-> IF summed THEN signals ELSE NotScored,
                                   auditWriteFailed |->
                                       summed /\ signals >= 60
                                       /\ auditWriteFails(signals, in.dbFails)]
    /\ UNCHANGED nonPayVars

\* The provider reports payment_intent.payment_failed for an intent: the webhook
\* writes a payment.failed event
PaymentFailed ==
    /\ orders.intents > 0
    /\ payHistory.initiated + payHistory.failed < MaxPaymentEvents
    /\ payHistory' = [payHistory EXCEPT !.failed = @ + 1]
    /\ payCall' = NoPayCall
    /\ UNCHANGED <<orders, nonPayVars>>

InitPayWith(histories) ==
    /\ payHistory \in histories
    /\ orders = NoOrders
    /\ payCall = NoPayCall

ValidationErrors == {"items is required", "cannot be specified by client"}

NoFingerprint == 0
Fingerprints == 1..2
\* the fingerprint bound into the token, up to renaming
TokenFingerprints == {1}
Envs == {"production", "development"}

\* A check that lets a mismatch through in every environment
fingerprintAcceptedAnyEnv(tokenFp, enhanced, legacy, env) == TRUE

\* lines 74-123: FALSE when the middleware answers 'Session invalid'.  enhanced is
\* generateEnhancedFingerprint(req), legacy is generateLegacyFingerprint(userAgent,
\* ipAddress) of the current request.
fingerprintAccepted(tokenFp, enhanced, legacy, env) ==
    IF tokenFp # NoFingerprint /\ tokenFp # enhanced
    THEN IF tokenFp = legacy THEN TRUE ELSE env # "production"
    ELSE TRUE

NoBearer ==
    [op |-> "none", status |-> 0, message |-> "", handlerCalled |-> FALSE,
     mismatch |-> FALSE, env |-> "development", locked |-> FALSE]

\* A request with Authorization: Bearer t on a route behind authenticate.
\* tokenFp is payload.fingerprint of t; locked is user.isAccountLocked().
BearerRequest(t, tokenFp, enhanced, legacy, locked, env) ==
    /\ LET r == authenticate(t, locked, fingerprintAccepted(tokenFp, enhanced, legacy, env))
       IN bearer' = [op |-> "request", status |-> r.status, message |-> r.message,
                     handlerCalled |-> r.message = "next",
                     mismatch |-> tokenFp \notin {enhanced, legacy},
                     env |-> env, locked |-> locked]
    /\ UNCHANGED nonBearerVars

InitBearerWith(requests) == bearer \in requests

Methods == {"GET", "HEAD", "OPTIONS", "POST", "PUT", "PATCH", "DELETE"}
SafeMethods == {"GET", "HEAD", "OPTIONS"}                      \* line 125
ApiPaths ==
    {<<"api", "v1", "auth", "login">>,
     <<"api", "v1", "payments", "create-intent">>,
     <<"api", "v1", "payments", "webhook">>,
     <<"api", "v1", "auth", "oauth", "google">>,
     <<"api", "v1", "auth", "google", "callback">>,
     <<"api", "v1", "api", "keys">>}
MountPath == <<"api", "v1">>                                   \* line 204
NoHeader == [present |-> FALSE, host |-> "", slash |-> FALSE, wellFormed |-> TRUE]
Url(host, slash) == [present |-> TRUE, host |-> host, slash |-> slash, wellFormed |-> TRUE]
Malformed == [present |-> TRUE, host |-> "", slash |-> FALSE, wellFormed |-> FALSE]
\* CLIENT_ORIGIN, lines 23-27: one origin written with a trailing slash, one without
allowedOrigins == {Url("shop", TRUE), Url("admin", FALSE)}
OriginHeaders == {NoHeader, Url("shop", FALSE), Url("shop", TRUE), Url("admin", FALSE), Url("evil", FALSE)}
\* the slash of a Referer stands for its path, which URL.origin drops
RefererHeaders == {NoHeader, Url("shop", TRUE), Url("evil", TRUE), Malformed}
\* the media types the Content-Type header names
ContentTypes == {{}, {"application/json"}, {"multipart/form-data"},
                 {"application/x-www-form-urlencoded"}}

\* o.endsWith('/') ? o.slice(0, -1) : o
stripSlash(o) == [o EXCEPT !.slash = FALSE]
normalizedAllowedOrigins == {stripSlash(o) : o \in allowedOrigins}
\* new URL(referer).origin
refererOrigin(referer) == [referer EXCEPT !.slash = FALSE]

\* req.path inside a middleware mounted with app.use(mount, ...): Express strips
\* the mount path from req.url, and req.path is the path of req.url
reqPath(path) == SubSeq(path, Len(MountPath) + 1, Len(path))
\* path.includes('/' + word), for the segments of the paths above
includes(path, word) == \E i \in 1..Len(path) : path[i] = word
\* path.startsWith('/' + word + '/')
startsWith(path, word) == Len(path) > 1 /\ path[1] = word

NextHandler == [status |-> 0, message |-> ""]
Forbidden(message) == [status |-> 403, message |-> message]

\* corsOptions.origin, lines 29-49: a listed or missing Origin goes on, any other
\* ends in the error handler
cors(r) ==
    IF ~r.origin.present THEN NextHandler
    ELSE IF stripSlash(r.origin) \in normalizedAllowedOrigins THEN NextHandler
    ELSE [status |-> 500, message |-> "Not allowed by CORS"]

\* csrfProtection, lines 123-201; path is req.path
csrfProtection(r, path) ==
    IF r.method \in SafeMethods THEN NextHandler
    ELSE IF includes(path, "webhook") THEN NextHandler
    ELSE IF includes(path, "oauth") \/ includes(path, "callback") THEN NextHandler
    ELSE IF r.origin.present /\ stripSlash(r.origin) \notin normalizedAllowedOrigins
         THEN Forbidden("Forbidden")
    ELSE IF /\ ~r.origin.present /\ r.referer.present /\ r.referer.wellFormed
            /\ refererOrigin(r.referer) \notin normalizedAllowedOrigins
         THEN Forbidden("Forbidden")
    ELSE IF /\ ~r.origin.present /\ r.referer.present /\ ~r.referer.wellFormed
            /\ r.env = "production"
         THEN Forbidden("Forbidden")
    ELSE IF /\ startsWith(path, "api") /\ ~includes(path, "webhook")
            /\ "application/json" \notin r.contentType
            /\ "multipart/form-data" \notin r.contentType
            /\ "application/x-www-form-urlencoded" \in r.contentType
            /\ r.env = "production"
         THEN Forbidden("Use JSON for API requests")
    ELSE NextHandler

NoGate ==
    [op |-> "none", method |-> "", path |-> <<>>, origin |-> NoHeader, referer |-> NoHeader,
     contentType |-> {}, env |-> "", status |-> 0, message |-> "", routed |-> FALSE]

\* One request under /api/v1: cors (line 72), csrfProtection (line 204), then the
\* webhook route or the router (lines 207, 227).  The two middlewares keep nothing
\* from one request to the next, so a behaviour is one request.
GateRequest(r) ==
    /\ gate.op = "none"
    /\ LET c == cors(r)
           answer == IF c.status # 0 THEN c ELSE csrfProtection(r, reqPath(r.path))
       IN gate' = [op |-> "request", method |-> r.method, path |-> r.path,
                   origin |-> r.origin, referer |-> r.referer,
                   contentType |-> r.contentType, env |-> r.env,
                   status |-> answer.status, message |-> answer.message,
                   routed |-> answer.status = 0]
    /\ UNCHANGED nonGateVars

GateRequests ==
    [method : Methods, path : ApiPaths, origin : OriginHeaders, referer : RefererHeaders,
     contentType : ContentTypes, env : Envs]

\* the paths the gate is not meant for: webhooks and OAuth callbacks
GateExempt(path) ==
    includes(path, "webhook") \/ includes(path, "oauth") \/ includes(path, "callback")
\* the origin a request claims: its Origin, or its Referer when Origin is absent
ResolvesToAllowed(g) ==
    IF g.origin.present THEN stripSlash(g.origin) \in normalizedAllowedOrigins
    ELSE /\ g.referer.present /\ g.referer.wellFormed
         /\ refererOrigin(g.referer) \in normalizedAllowedOrigins

\* C23: a state-changing request under /api/v1 outside the webhook and OAuth
\* callback paths reaches the routes only if its Origin, or its Referer when
\* Origin is absent, resolves to an allowed origin
C23_StateChangingNeedsAllowedOrigin ==
    (gate.op = "request" /\ gate.method \notin SafeMethods /\ ~GateExempt(gate.path)
        /\ gate.routed)
        => ResolvesToAllowed(gate)

\* C24: in production every state-changing request under /api/v1 (outside the
\* webhook and OAuth callback paths) whose Content-Type is
\* application/x-www-form-urlencoded is answered 403 and does not reach the routes
C24_UrlEncodedRejected ==
    (gate.op = "request" /\ gate.env = "production" /\ gate.method \notin SafeMethods
        /\ ~GateExempt(gate.path)
        /\ gate.contentType = {"application/x-www-form-urlencoded"})
        => (gate.status = 403 /\ ~gate.routed)

(***************************************************************************)
(* Rate limiters and the Redis store (rateLimiter.ts, lines 13-60, 293-520) *)
(***************************************************************************)
Limiters == {"general", "auth", "strict", "enhanced"}
RateLimitMax == 3       \* max of strictRateLimiter; the others differ in the number only

\* Before the module is loaded
NoRl ==
    [loaded |-> FALSE, redisClient |-> "null", link |-> "none", rateLimitStore |-> "undefined",
     hits |-> [l \in Limiters |-> 0],
     last |-> [op |-> "none", status |-> 0, storeFailed |-> FALSE, from |-> ""]]

\* Module load with redisConfig.enabled: initRedisClient (19-57) returns the
\* client at once (lazyConnect, connect() still pending), line 60 stores it, and
\* createRateLimitStore (293-309) wraps it in a RedisStore unless the constructor
\* throws.
LoadModule(constructorThrows) ==
    /\ ~rl.loaded
    /\ rl' = [rl EXCEPT !.loaded = TRUE, !.redisClient = "client", !.link = "connecting",
                        !.rateLimitStore = IF constructorThrows THEN "undefined"
                                           ELSE "RedisStore"]
    /\ UNCHANGED nonRlVars

\* client.connect() resolves
ConnectSucceeds ==
    /\ rl.loaded /\ rl.link = "connecting"
    /\ rl' = [rl EXCEPT !.link = "up"]
    /\ UNCHANGED nonRlVars

\* client.connect() rejects: the catch of lines 47-50 sets redisClient to null;
\* rateLimitStore, built at load, is not touched
ConnectFails ==
    /\ rl.loaded /\ rl.link = "connecting"
    /\ rl' = [rl EXCEPT !.link = "down", !.redisClient = "null"]
    /\ UNCHANGED nonRlVars

\* The connection is lost after it was up: the 'error' listener (42-44) logs
ConnectionLost ==
    /\ rl.loaded /\ rl.link = "up"
    /\ rl' = [rl EXCEPT !.link = "down"]
    /\ UNCHANGED nonRlVars

\* ioredis reconnects
Reconnected ==
    /\ rl.loaded /\ rl.link = "down" /\ rl.redisClient = "client"
    /\ rl' = [rl EXCEPT !.link = "up"]
    /\ UNCHANGED nonRlVars

\* sendCommand of the RedisStore, line 298: redisClient!.call(...) throws a
\* TypeError when redisClient is null and rejects when the command fails
sendCommandFails(s, opFails) ==
    s.redisClient = "null" \/ s.link # "up" \/ opFails

\* One request through a limiter built by rateLimit({store: rateLimitStore, ...}).
\* With a RedisStore the hit is counted by store.increment through sendCommand;
\* express-rate-limit hands a rejected increment to next(error), and the error
\* handler answers 500.  With store undefined express-rate-limit counts in its own
\* MemoryStore.
rateLimit(s, l, opFails) ==
    IF s.rateLimitStore = "RedisStore" /\ sendCommandFails(s, opFails)
    THEN [s EXCEPT !.last = [op |-> l, status |-> 500, storeFailed |-> TRUE, from |-> "none"]]
    ELSE LET n == IF s.hits[l] > RateLimitMax THEN s.hits[l] ELSE s.hits[l] + 1
         IN [s EXCEPT !.hits[l] = n,
                      !.last = [op |-> l,
                                status |-> IF n > RateLimitMax THEN 429 ELSE 200,
                                storeFailed |-> FALSE,
                                from |-> IF s.rateLimitStore = "RedisStore"
                                         THEN "redis" ELSE "memory"]]

LimiterRequest(l, opFails) ==
    /\ rl.loaded /\ rl.link # "connecting"
    /\ rl' = rateLimit(rl, l, opFails)
    /\ UNCHANGED nonRlVars

\* One lookup of the failed-login tracker, getFailedLoginRecord (101-113): the
\* Redis read when redisClient is set, and failedLoginsMemory when there is no
\* client, the read throws or finds nothing
TrackerLookup(opFails) ==
    /\ rl.loaded /\ rl.link # "connecting"
    /\ LET failed == rl.redisClient = "client" /\ (rl.link # "up" \/ opFails)
       IN rl' = [rl EXCEPT !.last = [op |-> "tracker", status |-> 200,
                                     storeFailed |-> failed,
                                     from |-> IF rl.redisClient = "client" /\ ~failed
                                              THEN "redis" ELSE "memory"]]
    /\ UNCHANGED nonRlVars

\* C25: with the distributed store enabled, a request that meets a failed
\* connection or a failed store operation is still served (200 or 429) from
\* in-process state, by the tracker and by each of the four limiters
C25_StoreFailureFailsNoRequest ==
    (rl.last.op # "none" /\ rl.last.storeFailed)
        => (rl.last.status # 500 /\ rl.last.from = "memory")
\* C25 for the failed-login tracker alone
C25_TrackerServesFromMemory ==
    (rl.last.op = "tracker" /\ rl.last.storeFailed)
        => (rl.last.status = 200 /\ rl.last.from = "memory")

(***************************************************************************)
(* Secrets from Vault (config/vault.ts), with VAULT_ENABLED = true          *)
(***************************************************************************)
SecretKeys == {"MONGO_URI", "ENCRYPTION_KEY"}
\* processEnv[k]: where the value of process.env[k] comes from
NoVaultClient ==
    [constructed |-> FALSE, roleId |-> FALSE, secretId |-> FALSE, isInitialized |-> FALSE,
     cachedSecrets |-> {}, processEnv |-> [k \in SecretKeys |-> "unset"],
     last |-> [op |-> "none", result |-> "", failed |-> "none"]]

VaultOutcome(v, result, failed) == [client |-> v, result |-> result, failed |-> failed]

\* new VaultClient(), lines 24-40 and 222.  roleId, secretId: VAULT_ROLE_ID and
\* VAULT_SECRET_ID are set; envKeys: the secrets the environment defines.
Construct(roleId, secretId, envKeys) ==
    /\ ~vaultClient.constructed
    /\ vaultClient' = [vaultClient EXCEPT !.constructed = TRUE, !.roleId = roleId,
                                          !.secretId = secretId,
                                          !.processEnv = [k \in SecretKeys |->
                                              IF k \in envKeys THEN "env" ELSE "unset"],
                                          !.last = [op |-> "construct", result |-> "client",
                                                    failed |-> "none"]]
    /\ UNCHANGED nonVaultClientVars

\* authenticateAppRole, lines 68-89.  loginFails: client.approleLogin rejects.
authenticateAppRole(v, loginFails) ==
    IF ~(v.roleId /\ v.secretId) THEN VaultOutcome(v, "throws", "credentials")
    ELSE IF loginFails THEN VaultOutcome(v, "throws", "approleLogin")
    ELSE VaultOutcome([v EXCEPT !.isInitialized = TRUE], "authenticated", "none")

\* readSecrets, lines 94-120.  The call of authenticateAppRole (100) stands before
\* the try block; a failed client.read is caught and answered with
\* getFallbackSecrets(), which does not fill cachedSecrets.  held: the keys the
\* secret at secretPath holds.
readSecrets(v, loginFails, readFails, held) ==
    LET auth == IF ~v.isInitialized /\ v.roleId /\ v.secretId
                THEN authenticateAppRole(v, loginFails)
                ELSE VaultOutcome(v, "skipped", "none")
    IN IF auth.result = "throws" THEN auth
       ELSE IF readFails THEN VaultOutcome(auth.client, "env", "read")
       ELSE VaultOutcome([auth.client EXCEPT !.cachedSecrets = held], "vault", "none")

\* initializeVault, lines 228-244: the secrets of readSecrets, or its error thrown again
InitializeVault(loginFails, readFails, held) ==
    /\ vaultClient.constructed
    /\ LET r == readSecrets(vaultClient, loginFails, readFails, held)
           \* lines 233-237: a secret fills process.env where the key is not set
           merged == [k \in SecretKeys |->
                        IF r.result = "vault" /\ k \in held /\ vaultClient.processEnv[k] = "unset"
                        THEN "vault" ELSE vaultClient.processEnv[k]]
       IN vaultClient' = [r.client EXCEPT !.processEnv = merged,
                                          !.last = [op |-> "initializeVault",
                                                    result |-> r.result, failed |-> r.failed]]
    /\ UNCHANGED nonVaultClientVars

\* getSecret, lines 125-135: reads the secrets when the cache is empty; the value
\* is the cached one or the environment's
GetSecret(key, loginFails, readFails, held) ==
    /\ vaultClient.constructed
    /\ LET read == IF vaultClient.cachedSecrets = {}
                   THEN readSecrets(vaultClient, loginFails, readFails, held)
                   ELSE VaultOutcome(vaultClient, "cached", "none")
           r == IF read.result = "throws" THEN read
                ELSE VaultOutcome(read.client,
                                  IF key \in read.client.cachedSecrets THEN "vault"
                                  ELSE IF read.client.processEnv[key] # "unset" THEN "env"
                                  ELSE "undefined",
                                  read.failed)
       IN vaultClient' = [r.client EXCEPT !.last = [op |-> "getSecret",
                                                    result |-> r.result, failed |-> r.failed]]
    /\ UNCHANGED nonVaultClientVars

\* renewToken, lines 168-181, called by the renewal loop (249-257), which logs
\* what it throws.  renewFails: client.tokenRenewSelf rejects.
RenewToken(renewFails, loginFails) ==
    /\ vaultClient.constructed /\ vaultClient.isInitialized
    /\ LET r == IF ~renewFails THEN VaultOutcome(vaultClient, "renewed", "none")
                ELSE IF vaultClient.roleId /\ vaultClient.secretId
                     THEN authenticateAppRole(vaultClient, loginFails)
                     ELSE VaultOutcome(vaultClient, "kept", "tokenRenewSelf")
       IN vaultClient' = [r.client EXCEPT !.last = [op |-> "renewToken",
                                                    result |-> r.result, failed |-> r.failed]]
    /\ UNCHANGED nonVaultClientVars

\* C26: whenever a Vault step of initializeVault fails, AppRole authentication and
\* the secret read included, initializeVault returns the environment's secrets
\* and does not throw
C26_InitializeVaultFallsBack ==
    (vaultClient.last.op = "initializeVault" /\ vaultClient.last.failed # "none")
        => vaultClient.last.result = "env"
\* C26 for the secret read alone
C26_ReadFailureFallsBack ==
    (vaultClient.last.op = "initializeVault" /\ vaultClient.last.failed = "read")
        => vaultClient.last.result = "env"

(***************************************************************************)
(* Verification of stored audit signatures (auditLog.model.ts, 194-219)     *)
(***************************************************************************)
OtherKey == "rotated-secret"
SignedFields ==
    [timestamp : 1..2, eventType : {"auth.login", "payment.failed"}, userId : {"u1"},
     action : {"login"}, resource : {"auth"}, result : {"success", "failure"}]
\* What the signature field of a stored entry can hold: the digest written at
\* insert, the digest of other fields or under another key, or a string of
\* another length (cut, empty, extended)
StoredSignatures(data) ==
    {createAuditSignature(data, AuditKey), createAuditSignature(data, OtherKey),
     createAuditSignature([data EXCEPT !.result = "tampered"], AuditKey),
     <<"text", 64, "other">>, <<"text", 32, "cut">>, <<"text", 0, "">>, <<"text", 65, "long">>}
StoredEntries ==
    UNION {{[timestamp |-> d.timestamp, eventType |-> d.eventType, userId |-> d.userId,
             action |-> d.action, resource |-> d.resource, result |-> d.result,
             signature |-> sig] : sig \in StoredSignatures(d)} : d \in SignedFields}

NoVerification == [op |-> "none", log |-> <<>>, secret |-> "", result |-> ""]

\* verifyAuditSignature(log, secret) for a stored entry
VerifyEntry(log, secret) ==
    /\ verification' = [op |-> "verify", log |-> log, secret |-> secret,
                        result |-> verifyAuditSignature(log, secret)]
    /\ UNCHANGED nonVerificationVars

\* C27: verifyAuditSignature returns true exactly when the stored signature
\* equals the recomputed one, and false, without an error, in every other case,
\* signatures of another length included
C27_VerifyReturnsBoolean ==
    verification.op = "verify"
        => verification.result =
              (IF verification.log.signature
                    = createAuditSignature(verification.log, verification.secret)
               THEN "true" ELSE "false")
\* C27 for signatures of the digest's length
C27_SameLengthCompared ==
    (verification.op = "verify" /\ byteLength(verification.log.signature) = 64)
        => verification.result =
              (IF verification.log.signature
                    = createAuditSignature(verification.log, verification.secret)
               THEN "true" ELSE "false")

(***************************************************************************)
(* The end of a block (rateLimiter.ts, 200-269)                             *)
(***************************************************************************)
\* every block written for key k has run out
BlockOver(k) == blockedUntilSet[k] > 0 /\ now >= blockedUntilSet[k]
PastBlockCheck == {"checkDelete", "delayGet", "delaying"}

\* a request for a key whose block is over is not answered 429
ExpiredBlockPasses ==
    \A p \in DOMAIN req :
        (req[p].pc = "idle" /\ req'[p].pc # "idle" /\ BlockOver(req'[p].key))
            => req'[p].pc \in PastBlockCheck \cup {"handler"}
\* the record was begun no later than the failure that set the block
FromBeforeBlock(record, k) ==
    record = NoRecord \/ record.firstAttempt <= blockedUntilSet[k] - BLOCK_DURATION
\* a failure after the block counts as the first of a new window, whatever was
\* recorded up to the block
CountStartsAgain ==
    \A p \in DOMAIN req :
        (req[p].pc = "trackSet" /\ req'[p].pc = "finished" /\ BlockOver(req[p].key)
            /\ FromBeforeBlock(req[p].record, req[p].key))
            => trackedRecord(req[p].record, now) = FirstRecord(now)

\* C28: a block does not last for ever: once now >= blockedUntil, with no failure
\* since, the next login request for the key passes the block check and reaches
\* the login handler, and the failure that may follow is counted from zero
C28_BlockEnds ==
    /\ [][ExpiredBlockPasses /\ CountStartsAgain]_vars
    /\ \A p \in LoginWorkers : (req[p].pc \in PastBlockCheck) ~> (req[p].pc = "handler")
\* a request for a key that had been blocked has reached the login handler
C28_Witness ==
    \E p \in DOMAIN req : req[p].pc = "handler" /\ BlockOver(req[p].key)

(***************************************************************************)
(* POST /logout (auth.controller.ts 231-249, auth.service.ts 501-506)       *)
(***************************************************************************)
NoLogoutCall ==
    [op |-> "none", token |-> NoToken, status |-> 0, message |-> "", revoked |-> FALSE]

\* logoutHandler for an authenticated request whose cookie carries refresh token t.
\* revokeFails: revokeRefreshToken rejects, so logoutUser throws; the catch block
\* of lines 244-248 answers 200 as well.
LogoutRequest(t, revokeFails) ==
    /\ sessions' = IF revokeFails THEN sessions ELSE revokeRefreshToken(t)
    /\ logoutCall' = [op |-> "logout", token |-> t, status |-> 200,
                      message |-> IF revokeFails THEN "Logged out"
                                  ELSE "Logged out successfully",
                      revoked |-> ~revokeFails]
    /\ UNCHANGED <<tokenVersion, refreshIssued, accessIssued, uuidCount,
                   expired, rcall, pcall, authAudit, rotated, rotatedFrom, stale>>
    /\ UNCHANGED <<limiterVars, jwtVars, auditVars, accountVars, payVars, bearerVars,
                   besideLogoutCallVars>>

\* C29: when the logout endpoint has answered success to a request that carried
\* refresh cookie r, the session of r is revoked (and Refresh(r) fails from then on)
C29_LogoutSuccessMeansRevoked ==
    (logoutCall.op = "logout" /\ logoutCall.status = 200)
        => \A s \in SessionOf(logoutCall.token) : s.revoked

(***************************************************************************)
(* Device fingerprint at issue and at authentication (fingerprint.ts       *)
(* 147-293, jwt.ts 44-48, auth.service.ts 264, 389, 456)                    *)
(***************************************************************************)
NoHeaderSent == "absent"
ForwardedFors == {NoHeaderSent, "203.0.113.7, 10.0.0.1"}
RemoteAddresses == {"10.0.0.1"}
\* the TLS socket of the request: none behind a plain-HTTP hop, or its cipher
TlsSockets == {NoHeaderSent, "TLSv1.3:TLS_AES_256_GCM_SHA384:TLSv1.3"}
UserAgents == {"Mozilla/5.0"}
AcceptLanguages == {NoHeaderSent, "en-US"}
AcceptEncodings == {NoHeaderSent, "gzip"}
SecFetchSites == {NoHeaderSent, "same-origin"}
SecFetchModes == {NoHeaderSent, "cors"}
SecFetchDests == {NoHeaderSent, "empty"}
IssuingOps == {"login", "login2FA", "refresh"}

FingerprintRequests ==
    [forwardedFor : ForwardedFors, remoteAddress : RemoteAddresses,
     tls : TlsSockets, userAgent : UserAgents,
     acceptLanguage : AcceptLanguages, acceptEncoding : AcceptEncodings,
     secFetchSite : SecFetchSites, secFetchMode : SecFetchModes,
     secFetchDest : SecFetchDests]

\* a || b of JavaScript for a header that may be absent
orElse(a, b) == IF a = NoHeaderSent \/ a = "" THEN b ELSE a

\* forwardedFor?.split(',')[0]?.trim(): the first entry of the header
firstEntry(h) == IF h = "203.0.113.7, 10.0.0.1" THEN "203.0.113.7" ELSE h

\* createHash('sha256').update(data).digest('hex'): a digest is told apart by
\* the string that was hashed
sha256Hex(data) == <<"sha256", data>>

\* extractTLSInfo, lines 147-174
extractTLSInfo(r) == IF r.tls = NoHeaderSent THEN "no-tls" ELSE r.tls

\* extractFingerprintComponents, lines 203-222
extractFingerprintComponents(r) ==
    [ipAddress |-> orElse(firstEntry(r.forwardedFor), orElse(r.remoteAddress, "unknown")),
     userAgent |-> orElse(r.userAgent, ""),
     acceptLanguage |-> orElse(r.acceptLanguage, ""),
     acceptEncoding |-> orElse(r.acceptEncoding, ""),
     secFetchSite |-> r.secFetchSite,
     secFetchMode |-> r.secFetchMode,
     secFetchDest |-> r.secFetchDest,
     tlsInfo |-> extractTLSInfo(r)]

\* generateEnhancedFingerprint, lines 230-257: the joined components
generateEnhancedFingerprint(r) ==
    LET c == extractFingerprintComponents(r)
    IN sha256Hex(<<c.ipAddress, c.tlsInfo, c.userAgent, c.acceptLanguage, c.acceptEncoding,
                orElse(c.secFetchSite, "none"), orElse(c.secFetchMode, "none"),
                orElse(c.secFetchDest, "none")>>)

\* generateFingerprintFromComponents, lines 262-282, called without additionalData
generateFingerprintFromComponents(userAgent, ipAddress) ==
    sha256Hex(<<ipAddress, "no-tls", userAgent, "", "", "none", "none", "none">>)

\* generateLegacyFingerprint, lines 288-293: `${userAgent}:${ipAddress}`
generateLegacyFingerprint(userAgent, ipAddress) == sha256Hex(<<userAgent, ":", ipAddress>>)

\* jwt.ts 44-48
generateFingerprint(userAgent, ipAddress) ==
    generateFingerprintFromComponents(userAgent, ipAddress)

\* extractDeviceInfo, auth.controller.ts 51-77
extractDeviceInfo(r) ==
    LET c == extractFingerprintComponents(r)
    IN [userAgent |-> c.userAgent, ipAddress |-> c.ipAddress]

\* the fingerprint signed into the access token by loginUser (264), loginWith2FA
\* (389) and refreshAccessToken (456) for the request r that asked for it
issuedFingerprint(r) ==
    LET deviceInfo == extractDeviceInfo(r)
    IN generateFingerprint(deviceInfo.userAgent, deviceInfo.ipAddress)

\* a fingerprint of the presenting request as the comparison of lines 74-80 sees
\* it: the token's own value, or another one
against(tokenFp, fp) == IF fp = tokenFp THEN 1 ELSE 2

NoPresented ==
    [op |-> "none", by |-> "none", request |-> <<>>, issued |-> <<>>,
     presentedOn |-> <<>>, enhanced |-> <<>>, env |-> "development",
     status |-> 0, message |-> ""]

\* Login, Login2FA or Refresh answers request r with an access token
IssueToken(by, r) ==
    /\ presented.op = "none"
    /\ presented' = [NoPresented EXCEPT !.op = "issued", !.by = by, !.request = r,
                                        !.issued = issuedFingerprint(r)]
    /\ UNCHANGED nonPresentedVars

\* The token is presented as a Bearer token on request r2, at once (not expired,
\* token version current, account not locked): authenticate, lines 66-123
PresentToken(r2, env) ==
    /\ presented.op = "issued"
    /\ LET d == extractDeviceInfo(r2)
           enhanced == generateEnhancedFingerprint(r2)
           legacy == generateLegacyFingerprint(d.userAgent, d.ipAddress)
           tokenFp == presented.issued
           a == authenticate([sub |-> CHOOSE u \in Users : TRUE,
                              tokenVersion |-> tokenVersion[CHOOSE u \in Users : TRUE]],
                             FALSE,
                             fingerprintAccepted(1, against(tokenFp, enhanced),
                                                 against(tokenFp, legacy), env))
       IN presented' = [presented EXCEPT !.op = "presented", !.presentedOn = r2,
                                         !.enhanced = enhanced, !.env = env,
                                         !.status = a.status, !.message = a.message]
    /\ UNCHANGED nonPresentedVars

\* C30: in production an access token presented on a request with the same IP,
\* TLS parameters, User-Agent, Accept-Language, Accept-Encoding and Sec-Fetch-*
\* headers as the request that obtained it is accepted, the fingerprint in the
\* token being the fingerprint recomputed at authentication
C30_SameRequestAccepted ==
    (presented.op = "presented" /\ presented.env = "production"
        /\ presented.presentedOn = presented.request)
        => (presented.message = "next" /\ presented.issued = presented.enhanced)

\* What the code does keep: the token is accepted on the same request when that
\* request has no TLS socket and none of the Accept-Language, Accept-Encoding and
\* Sec-Fetch-* headers
C30_BareRequestAccepted ==
    (presented.op = "presented" /\ presented.presentedOn = presented.request
        /\ presented.request.tls = NoHeaderSent
        /\ presented.request.acceptLanguage = NoHeaderSent
        /\ presented.request.acceptEncoding = NoHeaderSent
        /\ presented.request.secFetchSite = NoHeaderSent
        /\ presented.request.secFetchMode = NoHeaderSent
        /\ presented.request.secFetchDest = NoHeaderSent)
        => presented.message = "next"

(***************************************************************************)
(* A block and the requests already past the block check (rateLimiter.ts   *)
(* 150-195, 247-269; auth.controller.ts 152-171)                            *)
(***************************************************************************)
HeldWorkers == {"h1", "h2"}

\* the record of key k, as the next isLoginBlocked would read it, blocks the key
BlockedNow(k) ==
    LET record == getFailedLoginRecord(k, FALSE)
    IN record # NoRecord /\ record.blocked /\ now < record.blockedUntil

\* C31: once the record of a key is blocked with blockedUntil in the future, no
\* trackFailedLogin or resetFailedLogin call of a request that passed the block
\* check earlier clears the blocked flag or deletes the record before blockedUntil
C31_BlockOutlastsHeldRequests ==
    [][\A k \in Keys : BlockedNow(k) => BlockedNow(k)']_vars

\* What the tracker does keep: with the in-process map, where trackFailedLogin
\* reads and writes without another request in between, a failure recorded by a
\* request that passed the block check earlier leaves the key blocked
C31_TrackKeepsBlockInMemory ==
    [][\A k \in Keys :
          (BlockedNow(k) /\ ~redisClient
              /\ \E p \in DOMAIN req : req[p].pc = "trackSet" /\ req'[p].pc = "finished")
              => BlockedNow(k)']_vars

(***************************************************************************)
(* Order of the two writes of a rotation (auth.service.ts 452-485)         *)
(***************************************************************************)
Live(t) == \E s \in SessionOf(t) : ~s.revoked

\* the step in which a refresh call inserts its successor session finds the
\* session of the presented token revoked
RevokedBeforeInsert ==
    \A p \in DOMAIN rcall :
        (rcall[p].pc = "revoked" /\ rcall'[p].pc = "done" /\ sessions' # sessions)
            => ~Live(rcall[p].token)

\* C32: in every execution of Refresh the write that revokes the presented session
\* happens before the insert of the successor session; no reachable state holds a
\* non-revoked successor session while the session it was rotated from is still
\* non-revoked
C32_RevokeBeforeSuccessor ==
    /\ [][RevokedBeforeInsert]_vars
    /\ [](\A l \in rotatedFrom : Live(l.successor) => ~Live(l.from))
\* a rotation has left its successor usable and the presented session revoked
C32_Witness ==
    \E l \in rotatedFrom : Live(l.successor) /\ ~Live(l.from)

(***************************************************************************)
(* resetFailedLogin and the two stores (rateLimiter.ts 101-145, 192-195)    *)
(***************************************************************************)
\* the step in which the resetFailedLogin call of request p completes
ResetCompletes(p) == req[p].pc = "resetDel" /\ req'[p].pc = "finished"

\* C33: after resetFailedLogin(key) has completed, getFailedLoginRecord(key)
\* returns no record, for every combination of success and transient failure of
\* the Redis get, set and delete calls before it
C33_ResetLeavesNoRecord ==
    [][\A p \in DOMAIN req :
          ResetCompletes(p) => getFailedLoginRecord(req[p].key, FALSE)' = NoRecord]_vars

\* What the code does keep: while no Redis command has failed, the record is gone
\* after resetFailedLogin, in both store modes
C33_ResetClearsWithoutFaults ==
    [][\A p \in DOMAIN req :
          (ResetCompletes(p) /\ faultsLeft' = MaxFaults)
              => getFailedLoginRecord(req[p].key, FALSE)' = NoRecord]_vars

(***************************************************************************)
(* The failed-login key of a login request: checkLoginBlock before the      *)
(* validator, loginHandler after it (auth.routes.ts 60-73, rateLimiter.ts   *)
(* 87-96, auth.validator.ts 50-81, auth.controller.ts 128-200)              *)
(***************************************************************************)
MaxKeyedRequests == 2   \* login requests followed in one behaviour
NoEmail == <<>>         \* req.body.email undefined
\* spellings of two addresses, as the client sends them
EmailSpellings ==
    {<<"n", "@", "e">>, <<"N", "@", "E">>, <<" ", "n", "@", "e">>, <<"n", "@", "e", " ">>,
     <<"o", "@", "e">>, <<"n", "@">>}
ClientIps == {"203.0.113.7", "198.51.100.9"}

RECURSIVE trimStart(_)
trimStart(str) ==
    IF Len(str) > 0 /\ str[1] = " " THEN trimStart(Tail(str)) ELSE str
RECURSIVE trimEnd(_)
trimEnd(str) ==
    IF Len(str) > 0 /\ str[Len(str)] = " " THEN trimEnd(SubSeq(str, 1, Len(str) - 1)) ELSE str
\* Joi string().trim(), converting
trim(str) == trimEnd(trimStart(str))

\* Joi string().email(): one @ with something on both sides, no blank
isEmail(str) ==
    /\ Cardinality({i \in 1..Len(str) : str[i] = "@"}) = 1
    /\ Len(str) >= 3 /\ str[1] # "@" /\ str[Len(str)] # "@"
    /\ \A i \in 1..Len(str) : str[i] # " "

\* getClientKey, lines 87-96: ip, or ip with the hash of the lowercased email
getClientKey(ip, email) ==
    IF email = NoEmail THEN <<ip>> ELSE <<ip, <<"sha256", toLowerCase(email)>>>>

\* loginSchema, lines 50-71, on the email of the body: the converted value, or
\* the validation error
loginSchema(email) ==
    LET value == trim(toLowerCase(email))
    IN IF email # NoEmail /\ isEmail(value)
       THEN [error |-> FALSE, email |-> value]
       ELSE [error |-> TRUE, email |-> email]

\* login2FASchema, lines 74-81: tempToken and code; a key the schema does not
\* name, such as email, is a validation error
login2FASchema(email) ==
    [error |-> email # NoEmail, email |-> NoEmail]

NoKey == <<>>
NoKeyed == <<>>
\* POST /login: checkLoginBlock reads the body as sent; validateRequest
\* (loginSchema) answers 400 or hands the converted body on; loginHandler calls
\* resetFailedLogin / trackFailedLogin with req.body.email.
\* outcome: "tokens", "failure" or "pending" (no tracker call)
LoginRoute(ip, email, outcome) ==
    /\ Len(keyed) < MaxKeyedRequests
    /\ LET v == loginSchema(email)
       IN keyed' = Append(keyed,
            [route |-> "login", ip |-> ip, sent |-> email,
             checkKey |-> getClientKey(ip, email),
             status |-> IF v.error THEN 400 ELSE IF outcome = "failure" THEN 401 ELSE 200,
             account |-> IF v.error THEN NoEmail ELSE v.email,
             tracker |-> IF v.error \/ outcome = "pending" THEN "none"
                         ELSE IF outcome = "tokens" THEN "reset" ELSE "track",
             handlerKey |-> IF v.error \/ outcome = "pending" THEN NoKey
                            ELSE getClientKey(ip, v.email)])
    /\ UNCHANGED nonKeyedVars

\* POST /login/2fa: checkLoginBlock as above; login2FAHandler calls
\* resetFailedLogin(req) / trackFailedLogin(req), without an email
Login2FARoute(ip, email, outcome) ==
    /\ Len(keyed) < MaxKeyedRequests
    /\ LET v == login2FASchema(email)
       IN keyed' = Append(keyed,
            [route |-> "login2FA", ip |-> ip, sent |-> email,
             checkKey |-> getClientKey(ip, email),
             status |-> IF v.error THEN 400 ELSE IF outcome = "failure" THEN 401 ELSE 200,
             account |-> NoEmail,
             tracker |-> IF v.error THEN "none"
                         ELSE IF outcome = "tokens" THEN "reset" ELSE "track",
             handlerKey |-> IF v.error THEN NoKey ELSE getClientKey(ip, NoEmail)])
    /\ UNCHANGED nonKeyedVars

\* C34: for every login request the failed-login key that checkLoginBlock consults
\* equals the key under which the handler records the failure or the reset of that
\* request, and two spellings of one email that the validator maps to the same
\* account, sent from one ip, share one record
C34_OneKeyPerRequestAndAccount ==
    /\ \A i \in DOMAIN keyed :
          keyed[i].tracker # "none" => keyed[i].checkKey = keyed[i].handlerKey
    /\ \A i, j \in DOMAIN keyed :
          (keyed[i].route = "login" /\ keyed[j].route = "login"
              /\ keyed[i].account # NoEmail /\ keyed[i].account = keyed[j].account
              /\ keyed[i].ip = keyed[j].ip)
              => keyed[i].checkKey = keyed[j].checkKey

\* What the code does keep: spellings that differ in letter case only share one
\* record, at the block check and in the handler
C34_CaseSpellingsShareKey ==
    \A i, j \in DOMAIN keyed :
        (keyed[i].route = "login" /\ keyed[j].route = "login"
            /\ keyed[i].ip = keyed[j].ip
            /\ toLowerCase(keyed[i].sent) = toLowerCase(keyed[j].sent))
            => /\ keyed[i].checkKey = keyed[j].checkKey
               /\ (keyed[i].tracker # "none" /\ keyed[j].tracker # "none")
                      => keyed[i].handlerKey = keyed[j].handlerKey

C36_SuccessorKeepsFamily ==
    \A l \in rotatedFrom :
        /\ l.successor.family = l.from.family
        /\ \A s \in SessionOf(l.successor), c \in SessionOf(l.from) : s.family = c.family

(***************************************************************************)
(* Backup codes of the 2FA setup (auth.service.ts 337-357, 642-779)         *)
(***************************************************************************)
MaxGenerated == 4       \* calls of generate2FASecret followed
CodesPerCall == 2       \* backup codes of one call followed

\* twoFactor.service generate2FASecret: a new secret and new random backup codes
\* at every call; n calls were made before
generate2FASecret(n) ==
    [secret |-> n + 1, backupCodes |-> {<<n + 1, i>> : i \in 1..CodesPerCall}]
\* twoFactor.service hashBackupCodes: one hash per code
hashBackupCodes(backupCodes) == {<<"bcrypt", c>> : c \in backupCodes}
\* user.verifyBackupCode: the code matches a stored hash
verifyBackupCode(stored, code) == <<"bcrypt", code>> \in stored
AllBackupCodes == UNION {generate2FASecret(n).backupCodes : n \in 0..(MaxGenerated - 1)}

NoCodes ==
    [twoFactor |-> "off", stored |-> {}, shown |-> {}, regenerated |-> {},
     generated |-> 0, op |-> "none", code |-> <<>>, accepted |-> FALSE]

\* enable2FA, lines 642-668: the encrypted secret is saved, secret and backup
\* codes are returned; twoFactorBackupCodes is not written
SetupStart ==
    /\ codes.twoFactor # "on"
    /\ codes.generated < MaxGenerated
    /\ LET g == generate2FASecret(codes.generated)
       IN codes' = [codes EXCEPT !.twoFactor = "pending", !.shown = g.backupCodes,
                                 !.generated = @ + 1, !.op = "enable2FA",
                                 !.code = <<>>, !.accepted = FALSE]
    /\ UNCHANGED nonCodesVars

\* verify2FASetup, lines 670-704, with a valid TOTP code: twoFactorEnabled is set
\* and, when no backup codes are stored, lines 691-694 generate and hash new ones
SetupVerify ==
    /\ codes.twoFactor = "pending"
    /\ codes.stored = {} => codes.generated < MaxGenerated
    /\ LET g == generate2FASecret(codes.generated)
       IN codes' = [codes EXCEPT
                      !.twoFactor = "on",
                      !.stored = IF @ = {} THEN hashBackupCodes(g.backupCodes) ELSE @,
                      !.generated = IF codes.stored = {} THEN @ + 1 ELSE @,
                      !.op = "verify2FASetup", !.code = <<>>, !.accepted = FALSE]
    /\ UNCHANGED nonCodesVars

\* loginWith2FA, lines 347-357, with a backup code as the code: it is no TOTP code,
\* so user.verifyBackupCode decides, and a matching code is consumed
LoginWithBackupCode(code) ==
    /\ codes.twoFactor = "on"
    /\ LET ok == verifyBackupCode(codes.stored, code)
       IN codes' = [codes EXCEPT !.stored = @ \ {<<"bcrypt", code>>},
                                 !.op = "loginWith2FA", !.code = code, !.accepted = ok]
    /\ UNCHANGED nonCodesVars

\* regenerateBackupCodes, lines 749-779, with the right password
RegenerateBackupCodes ==
    /\ codes.twoFactor = "on"
    /\ codes.generated < MaxGenerated
    /\ LET g == generate2FASecret(codes.generated)
       IN codes' = [codes EXCEPT !.stored = hashBackupCodes(g.backupCodes),
                                 !.regenerated = g.backupCodes,
                                 !.generated = @ + 1, !.op = "regenerateBackupCodes",
                                 !.code = <<>>, !.accepted = FALSE]
    /\ UNCHANGED nonCodesVars

\* disable2FA, lines 706-747, with the right password and a valid code
DisableCodes ==
    /\ codes.twoFactor = "on"
    /\ codes' = [codes EXCEPT !.twoFactor = "off", !.stored = {}, !.shown = {},
                              !.regenerated = {}, !.op = "disable2FA",
                              !.code = <<>>, !.accepted = FALSE]
    /\ UNCHANGED nonCodesVars

\* C37: every backup code that Enable2FA returns in plaintext is accepted once as
\* second factor after the setup is verified: the hashes stored when 2FA becomes
\* enabled are the hashes of exactly the codes shown to the user
C37_ShownCodesAreStored ==
    [][(codes.twoFactor = "pending" /\ codes'.twoFactor = "on")
          => codes'.stored = hashBackupCodes(codes'.shown)]_vars

\* What the code does keep: the codes returned by regenerateBackupCodes are the
\* ones stored, and a stored code is accepted once
C37_RegeneratedCodesAreStored ==
    [][/\ codes'.op = "regenerateBackupCodes"
             => codes'.stored = hashBackupCodes(codes'.regenerated)
       /\ (codes'.op = "loginWith2FA" /\ codes'.accepted)
             => (verifyBackupCode(codes.stored, codes'.code)
                 /\ ~verifyBackupCode(codes'.stored, codes'.code))]_vars

(***************************************************************************)
(* Webhook events of the payment provider                                  *)
(*                                                                         *)
(* handleStripeEvent runs once per delivery of a verified event.  The      *)
(* provider delivers an event again when it saw no answer, with the same   *)
(* event id and the same payment intent.  Two orders are followed, one per  *)
(* payment intent; createOrder leaves each of them pending.                *)
(***************************************************************************)
MaxDeliveries == 3

Intents == {"pi_1", "pi_2"}

EventIds == {"evt_1", "evt_2", "evt_3", "evt_4", "evt_5"}

\* what the provider sends under each event id, at every delivery of it
StripeEvent(id) ==
    CASE id = "evt_1" -> [id |-> id, type |-> "payment_intent.succeeded",
                          intent |-> "pi_1", orderId |-> TRUE, userId |-> TRUE]
      [] id = "evt_2" -> [id |-> id, type |-> "payment_intent.payment_failed",
                          intent |-> "pi_1", orderId |-> TRUE, userId |-> TRUE]
      [] id = "evt_3" -> [id |-> id, type |-> "payment_intent.succeeded",
                          intent |-> "pi_2", orderId |-> TRUE, userId |-> FALSE]
      [] id = "evt_4" -> [id |-> id, type |-> "payment_intent.payment_failed",
                          intent |-> "pi_2", orderId |-> FALSE, userId |-> FALSE]
      [] OTHER        -> [id |-> id, type |-> "charge.refunded",
                          intent |-> "pi_2", orderId |-> TRUE, userId |-> TRUE]

NoEvent == [id |-> "none", type |-> "none", intent |-> "none",
            orderId |-> FALSE, userId |-> FALSE]

NoWebhook ==
    [status    |-> [i \in Intents |-> "pending"],
     completed |-> [i \in Intents |-> 0],
     failed    |-> [i \in Intents |-> 0],
     emails    |-> [i \in Intents |-> 0],
     cartCleared |-> FALSE,
     delivered |-> {},
     deliveries |-> 0,
     last      |-> NoEvent,
     again     |-> FALSE]

\* the order with this payment intent gets the status it is given
updateOrderStatusByPaymentIntent(status, paymentIntentId, newStatus) ==
    [status EXCEPT ![paymentIntentId] = newStatus]

\* one more audit entry of the order
logPaymentEvent(entries, paymentIntentId) ==
    [entries EXCEPT ![paymentIntentId] = @ + 1]

\* one delivery of the event with this id; emailFails: getOrderDetails,
\* the user lookup or sendOrderConfirmationEmail throws, and the catch logs it
handleStripeEvent(id, emailFails) ==
    LET event == StripeEvent(id)
        pi == event.intent
        seen == [webhook EXCEPT !.delivered = @ \cup {id},
                                !.deliveries = @ + 1,
                                !.last = event,
                                !.again = id \in webhook.delivered]
    IN  /\ webhook.deliveries < MaxDeliveries
        /\ webhook' =
             CASE event.type = "payment_intent.succeeded" /\ event.orderId ->
                    LET paid == [seen EXCEPT !.status =
                                    updateOrderStatusByPaymentIntent(@, pi, "paid")]
                    IN  IF event.userId
                        THEN [paid EXCEPT
                                !.completed = logPaymentEvent(@, pi),
                                !.cartCleared = TRUE,
                                !.emails = IF emailFails THEN @
                                           ELSE [@ EXCEPT ![pi] = @ + 1]]
                        ELSE paid
               [] event.type = "payment_intent.payment_failed" /\ event.orderId ->
                    LET cancelled == [seen EXCEPT !.status =
                                    updateOrderStatusByPaymentIntent(@, pi, "cancelled")]
                    IN  IF event.userId
                        THEN [cancelled EXCEPT !.failed = logPaymentEvent(@, pi)]
                        ELSE cancelled
               [] OTHER -> seen
        /\ UNCHANGED nonWebhookVars

Delivered(id) == webhook'.last.id = id /\ webhook'.deliveries = webhook.deliveries + 1

\* C38: a payment_intent.succeeded event delivered once more leaves the
\* status of the order, the number of its payment.completed audit entries
\* and the number of its confirmation emails as they were, and an order
\* that is paid is not cancelled by a payment_intent.payment_failed event
\* of the same intent
C38_RedeliveryChangesNothing ==
    [][\A id \in EventIds :
         LET event == StripeEvent(id)
             pi == event.intent
         IN  Delivered(id) =>
               /\ (event.type = "payment_intent.succeeded" /\ id \in webhook.delivered) =>
                    /\ webhook'.status[pi] = webhook.status[pi]
                    /\ webhook'.completed[pi] = webhook.completed[pi]
                    /\ webhook'.emails[pi] = webhook.emails[pi]
               /\ (event.type = "payment_intent.payment_failed"
                     /\ webhook.status[pi] = "paid") =>
                    webhook'.status[pi] # "cancelled"]_vars

\* what the handler does keep: between two deliveries of one succeeded
\* event with nothing delivered in between, the order stays paid
C38_RedeliveryKeepsPaid ==
    [][\A id \in EventIds :
         (/\ Delivered(id)
          /\ webhook.last.id = id
          /\ StripeEvent(id).type = "payment_intent.succeeded"
          /\ StripeEvent(id).orderId)
         => /\ webhook.status[StripeEvent(id).intent] = "paid"
            /\ webhook'.status[StripeEvent(id).intent] = "paid"]_vars

(***************************************************************************)
(* verifyEmail and the temp token of a 2FA login                           *)
(*                                                                         *)
(* loginUser stores the temp token of a 2FA login in emailVerificationToken *)
(* and emailVerificationExpiry (lines 250-254), the two fields verifyEmail  *)
(* looks the user up by (lines 120-123).                                   *)
(***************************************************************************)
\* the temp token of a 2FA login is on the document and has not expired
PendingTempToken ==
    /\ account.exists
    /\ account.emailVerificationLive
    /\ account.emailVerificationToken \in tempTokens

\* C39: verifyEmail succeeds only for a token issued by registerUser or
\* resendVerificationEmail: it accepts no temp token minted by loginUser and
\* it leaves a pending temp token on the document
C39_VerifyEmailRefusesTempTokens ==
    [][\A token \in 1..MaxSecureTokens :
         PostVerifyEmail(token) =>
           /\ (token \in tempTokens => call'.error # "")
           /\ (PendingTempToken =>
                 /\ account'.emailVerificationToken = account.emailVerificationToken
                 /\ account'.emailVerificationLive)]_vars

\* what the order of the checks in loginUser does keep: a temp token is minted
\* for verified accounts only, so verifyEmail with a temp token verifies no
\* account that was unverified
C39_TempTokenVerifiesNobodyNew ==
    [][\A token \in 1..MaxSecureTokens :
         (PostVerifyEmail(token) /\ token \in tempTokens /\ call'.error = "")
         => account.verified]_vars

(***************************************************************************)
(* The riskScore of the detectors of anomaly.service                       *)
(*                                                                         *)
(* Every detector adds the weight of each signal that fires to riskScore,  *)
(* hands riskScore to logSecurityEvent when it is 60 or more and returns   *)
(* it; its catch block answers riskScore 0.  The database reads are inputs: *)
(* the orders and counts they return.  The alerts sent at 70 or more carry  *)
(* their own catch and change neither the result nor the audit log.        *)
(***************************************************************************)
MaxOrderHistory == 2

AnomalyResult(riskScore) == [isAnomalous |-> riskScore >= 60, riskScore |-> riskScore]

\* userOrders.reduce((sum, order) => sum + order.totalAmount, 0)
RECURSIVE totalOf(_)
totalOf(userOrders) ==
    IF userOrders = <<>> THEN 0
    ELSE Head(userOrders).totalAmount + totalOf(Tail(userOrders))

\* userOrders.slice(0, 3).map(o => o.shippingAddress).filter(Boolean)
usedAddresses(userOrders) ==
    {userOrders[i].shippingAddress : i \in 1..Min(3, Len(userOrders))} \ {""}

\* detectHighValueOrderAnomaly, lines 30-67: the sum of the signals that fire.
\* orderAmount > avgOrderValue * 3 with avgOrderValue = total / length.
highValueSignals(userOrders, orderAmount, shippingAddress) ==
    (IF Len(userOrders) > 0
     THEN (IF orderAmount * Len(userOrders) > totalOf(userOrders) * 3 THEN 40 ELSE 0)
          + (IF usedAddresses(userOrders) # {}
                /\ shippingAddress \notin usedAddresses(userOrders)
             THEN 30 ELSE 0)
     ELSE (IF orderAmount > 1000 THEN 50 ELSE 0))
    + (IF orderAmount > 10000 THEN 25 ELSE 0)

\* what a detector returns for the riskScore it summed up
returned(riskScore, queryFails, dbFails) ==
    IF queryFails THEN 0
    ELSE IF riskScore >= 60
            /\ logSecurityEvent(auditWriteFails(riskScore, dbFails)) = "rejected"
    THEN 0 ELSE riskScore

detectHighValueOrderAnomaly(userOrders, orderAmount, shippingAddress, queryFails, dbFails) ==
    AnomalyResult(returned(highValueSignals(userOrders, orderAmount, shippingAddress),
                           queryFails, dbFails))

\* detectRapidOrderCreation, lines 139-149
rapidOrderSignals(ordersLastHour, ordersLastDay) ==
    (IF ordersLastHour > 5 THEN 70 ELSE 0) + (IF ordersLastDay > 20 THEN 50 ELSE 0)

detectRapidOrderCreation(ordersLastHour, ordersLastDay, queryFails, dbFails) ==
    AnomalyResult(returned(rapidOrderSignals(ordersLastHour, ordersLastDay),
                           queryFails, dbFails))

\* detectFailedLoginPattern, lines 206-247.  recentAttempts: how many
\* security.failed_login entries of the ip the query returned (at most 20) and
\* the time in ms between the newest and the oldest of them; the gaps between
\* neighbours add up to that span, so avgGap = span / (length - 1).
failedLoginSignals(hasUserId, failedByUser, failedByIp, recentAttempts) ==
    (IF hasUserId /\ failedByUser > 5 THEN 60 ELSE 0)
    + (IF failedByIp > 10 THEN 70 ELSE 0)
    + (IF recentAttempts.length >= 10
          /\ recentAttempts.span < 5000 * (recentAttempts.length - 1)
       THEN 80 ELSE 0)

detectFailedLoginPattern(hasUserId, failedByUser, failedByIp, recentAttempts, queryFails, dbFails) ==
    AnomalyResult(returned(failedLoginSignals(hasUserId, failedByUser, failedByIp,
                                              recentAttempts),
                           queryFails, dbFails))

\* Math.max(...checks.map(c => c.riskScore), 0)
maxRiskScore(checks) ==
    IF checks = {} THEN 0
    ELSE CHOOSE m \in {c.riskScore : c \in checks} : \A c \in checks : c.riskScore <= m

\* performFraudCheck, lines 397-447: the checks of the action, then the
\* largest of their scores.  The detectors catch their own errors.
performFraudCheck(action, order, rapid, payment, login) ==
    LET checks ==
          (IF action = "order" /\ order.orderAmount # 0 /\ order.shippingAddress # ""
           THEN {detectHighValueOrderAnomaly(order.userOrders, order.orderAmount,
                                             order.shippingAddress, FALSE, FALSE),
                 detectRapidOrderCreation(rapid.ordersLastHour, rapid.ordersLastDay,
                                          FALSE, FALSE)}
           ELSE {})
          \cup
          (IF action = "payment" /\ payment.amount # 0
           THEN {AnomalyResult(detectPaymentFraud(payment.history, payment.amount,
                                                  payment.ip, FALSE, FALSE))}
           ELSE {})
          \cup
          (IF action = "login" /\ login.hasIp
           THEN {detectFailedLoginPattern(login.hasUserId, login.failedByUser,
                                          login.failedByIp, login.recentAttempts,
                                          FALSE, FALSE)}
           ELSE {})
    IN  AnomalyResult(maxRiskScore(checks))

\* The inputs: what the reads of the database can return
PastOrders == [totalAmount : {100, 2000}, shippingAddress : {"", "a1"}]
OrderHistories == UNION {[1..n -> PastOrders] : n \in 0..MaxOrderHistory}
OrderInputs ==
    [userOrders : OrderHistories, orderAmount : {500, 1500, 12000},
     shippingAddress : {"a1", "a2"}]
\* the orders of the last hour are among those of the last day
RapidInputs ==
    {r \in [ordersLastHour : {0, 6, 21}, ordersLastDay : {0, 6, 21}] :
        r.ordersLastHour <= r.ordersLastDay}
\* the failed logins of the ip in the last 15 minutes are among those of the
\* last hour, of which the query returns 20 at most
LoginInputs ==
    {l \in [hasIp : {TRUE}, hasUserId : BOOLEAN, failedByUser : {0, 6},
            failedByIp : {0, 11},
            recentAttempts : [length : {0, 10, 20}, span : {0, 30000, 600000}]] :
        /\ l.recentAttempts.length >= Min(l.failedByIp, 20)
        /\ (l.recentAttempts.length = 0 => l.recentAttempts.span = 0)
        /\ (~l.hasUserId => l.failedByUser = 0)}
SixIps == 1..6
\* every event carries one ip at most
PaymentHistories ==
    {h \in [initiated : {0, 4, 8}, failed : {0, 4}, ips : {{}, {1}, SixIps}] :
        Cardinality(h.ips) <= h.initiated + h.failed}
FraudInputs == [history : PaymentHistories, amount : {100, 6000}, ip : {NoIp, 1}]

NoInput == [none |-> TRUE]
NoAnomaly ==
    [fn |-> "none", input |-> NoInput, result |-> AnomalyResult(0),
     audited |-> FALSE, auditedScore |-> 0]

\* one call: the result and the riskScore given to logSecurityEvent, if any
Detected(fn, input, riskScore, queryFails, result) ==
    /\ anomaly.fn = "none"
    /\ anomaly' = [fn |-> fn, input |-> input, result |-> result,
                   audited |-> ~queryFails /\ riskScore >= 60,
                   auditedScore |-> IF ~queryFails /\ riskScore >= 60 THEN riskScore ELSE 0]
    /\ UNCHANGED nonAnomalyVars

\* dbFails is read when the audit write is reached
Faults(riskScore) ==
    {f \in [queryFails : BOOLEAN, dbFails : BOOLEAN] :
        f.dbFails => (~f.queryFails /\ riskScore >= 60)}

DetectHighValueOrderAnomaly ==
    \E i \in OrderInputs :
      LET riskScore == highValueSignals(i.userOrders, i.orderAmount, i.shippingAddress)
      IN  \E f \in Faults(riskScore) :
            Detected("detectHighValueOrderAnomaly", i, riskScore, f.queryFails,
                     detectHighValueOrderAnomaly(i.userOrders, i.orderAmount,
                                                 i.shippingAddress, f.queryFails, f.dbFails))

DetectRapidOrderCreation ==
    \E i \in RapidInputs :
      LET riskScore == rapidOrderSignals(i.ordersLastHour, i.ordersLastDay)
      IN  \E f \in Faults(riskScore) :
            Detected("detectRapidOrderCreation", i, riskScore, f.queryFails,
                     detectRapidOrderCreation(i.ordersLastHour, i.ordersLastDay,
                                              f.queryFails, f.dbFails))

DetectFailedLoginPattern ==
    \E i \in LoginInputs :
      LET riskScore == failedLoginSignals(i.hasUserId, i.failedByUser, i.failedByIp,
                                          i.recentAttempts)
      IN  \E f \in Faults(riskScore) :
            Detected("detectFailedLoginPattern", i, riskScore, f.queryFails,
                     detectFailedLoginPattern(i.hasUserId, i.failedByUser, i.failedByIp,
                                              i.recentAttempts, f.queryFails, f.dbFails))

DetectPaymentFraud ==
    \E i \in FraudInputs :
      LET riskScore == riskSignals(i.history, i.amount, i.ip)
      IN  \E f \in Faults(riskScore) :
            Detected("detectPaymentFraud", i, riskScore, f.queryFails,
                     AnomalyResult(detectPaymentFraud(i.history, i.amount, i.ip,
                                                      f.queryFails, f.dbFails)))

\* performFraudCheck itself writes nothing to the audit log
PerformFraudCheck ==
    \E action \in {"order", "payment", "login"} :
    \E order \in {o \in [userOrders : OrderHistories, orderAmount : {0, 1500, 12000},
                         shippingAddress : {"", "a2"}] : action = "order"}
                 \cup {o \in OrderInputs : action # "order" /\ o.userOrders = <<>>
                                           /\ o.orderAmount = 500
                                           /\ o.shippingAddress = "a1"} :
    \E rapid \in {r \in RapidInputs : action = "order" \/ r.ordersLastDay = 0} :
    \E payment \in {p \in [history : PaymentHistories, amount : {0, 100, 6000},
                           ip : {NoIp, 1}] :
                       action = "payment"
                       \/ (p.history = NoHistory /\ p.amount = 0 /\ p.ip = NoIp)} :
    \E login \in {l \in LoginInputs : action = "login"}
                 \cup {[hasIp |-> FALSE, hasUserId |-> FALSE, failedByUser |-> 0,
                        failedByIp |-> 0,
                        recentAttempts |-> [length |-> 0, span |-> 0]]} :
      /\ anomaly.fn = "none"
      /\ anomaly' = [fn |-> "performFraudCheck",
                     input |-> [action |-> action, order |-> order, rapid |-> rapid,
                                payment |-> payment, login |-> login],
                     result |-> performFraudCheck(action, order, rapid, payment, login),
                     audited |-> FALSE, auditedScore |-> 0]
      /\ UNCHANGED nonAnomalyVars

\* C40: every AnomalyResult the five functions return and every riskScore
\* they give to the audit log lies between 0 and 100, whichever signals fire
C40_RiskScoreWithinRange ==
    /\ anomaly.result.riskScore \in 0..100
    /\ anomaly.audited => anomaly.auditedScore \in 0..100

\* the weights of detectHighValueOrderAnomaly do stay within the range: its
\* signals add up to 95 at most
C40_HighValueOrderWithinRange ==
    anomaly.fn = "detectHighValueOrderAnomaly" =>
        /\ anomaly.result.riskScore \in 0..95
        /\ anomaly.audited => anomaly.auditedScore \in 60..95

(***************************************************************************)
(* Specifications                                                          *)
(***************************************************************************)
\* Spec: rotation of refresh sessions by two concurrent workers, with logins,
\* logouts and expiry in between
\* the parts a specification does not exercise stay as they are at start
IdleAuth == InitAuthWith({})
IdleLimiter == InitLimiterWith({}, {FALSE}, 0)
IdleJwt == InitJwtWith({NoJwt})
IdleAudit == InitAuditWith({})
IdleAccount == InitAccountWith({Absent})
IdlePay == InitPayWith({NoHistory})
IdleBearer == InitBearerWith({NoBearer})
IdleCore ==
    /\ IdleAuth /\ IdleLimiter /\ IdleJwt /\ IdleAudit
    /\ IdleAccount /\ IdlePay /\ IdleBearer
\* BEGIN edge idle
IdleEdge == gate = NoGate /\ rl = NoRl /\ vaultClient = NoVaultClient /\ verification = NoVerification /\ logoutCall = NoLogoutCall /\ presented = NoPresented /\ keyed = NoKeyed /\ codes = NoCodes /\ webhook = NoWebhook /\ anomaly = NoAnomaly
\* END edge idle
Idle == IdleAccount /\ IdlePay /\ IdleBearer /\ IdleEdge

Init == InitAuthWith(RefreshWorkers) /\ IdleLimiter /\ IdleJwt /\ IdleAudit /\ Idle
Next ==
    \/ \E u \in Users : Login(u)
    \/ \E t \in refreshIssued : Expire(t)
    \/ RefreshStep
    \/ \E t \in refreshIssued : Logout(t)
    \/ \E u \in Users : LogoutAll(u)
Spec == Init /\ [][Next]_vars

\* SpecPassword: password changes, with access tokens minted by login and by
\* rotation before, during and after them
InitPassword == InitAuthWith({"r1"}) /\ IdleLimiter /\ IdleJwt /\ IdleAudit /\ Idle
NextPassword ==
    \/ \E u \in Users : Login(u)
    \/ \E t \in accessIssued : Expire(t)
    \/ RefreshStep
    \/ PasswordStep
SpecPassword == InitPassword /\ [][NextPassword]_vars

\* SpecLimiter: login requests handled one after another over time, in either mode
InitLimiter == InitLimiterWith(LoginWorkers, BOOLEAN, MaxFaults) /\ IdleAuth /\ IdleJwt /\ IdleAudit /\ Idle
NextLimiter ==
    \/ RequestStep
    \/ \E p \in DOMAIN req, outcome \in {"tokens", "failure", "pending"} : Handler(p, outcome)
    \/ \E p \in DOMAIN req, failed \in FaultChoices : ResetDel(p, failed)
    \/ \E p \in DOMAIN req : RequestReturn(p)
    \/ Cleanup
    \/ Tick
SpecLimiter == InitLimiter /\ [][NextLimiter]_vars

\* SpecBurst: six login requests with a wrong password at one instant, Redis mode;
\* no record expires meanwhile, so isLoginBlocked deletes nothing
InitBurst == InitLimiterWith(BurstWorkers, {TRUE}, MaxFaults) /\ IdleAuth /\ IdleJwt /\ IdleAudit /\ Idle
NextBurst ==
    \/ \E p \in DOMAIN req, k \in Keys : CheckGet(p, k, FALSE)
    \/ \E p \in DOMAIN req : DelayGet(p, FALSE)
    \/ \E p \in DOMAIN req : DelayFire(p)
    \/ \E p \in DOMAIN req : Handler(p, "failure")
    \/ \E p \in DOMAIN req : TrackGet(p, FALSE)
    \/ \E p \in DOMAIN req : TrackSet(p, FALSE)
SpecBurst == InitBurst /\ [][NextBurst]_vars

\* SpecJwt: one call of a verifier on any token of TokenInputs
InitJwt == InitJwtWith(TokenInputs) /\ IdleAuth /\ IdleLimiter /\ IdleAudit /\ Idle
NextJwt ==
    \/ \E fingerprint \in {"", "fpA", "fpB"} : VerifyAccess(fingerprint)
    \/ VerifyRefresh
SpecJwt == InitJwt /\ [][NextJwt]_vars

\* SpecAudit: two writers appending to the chain, possibly at the same time
InitAudit == InitAuditWith(AuditWriters) /\ IdleAuth /\ IdleLimiter /\ IdleJwt /\ Idle
NextAudit ==
    \/ \E w \in DOMAIN writer, failed \in BOOLEAN : WriterLookup(w, failed)
    \/ \E w \in DOMAIN writer : WriterInsert(w)
    \/ ClockTick
SpecAudit == InitAudit /\ [][NextAudit]_vars

\* SpecAuditModel: one writer, and the model's update and delete operations
InitAuditModel == InitAuditWith({"a1"}) /\ IdleAuth /\ IdleLimiter /\ IdleJwt /\ Idle
NextAuditModel ==
    \/ \E failed \in BOOLEAN : WriterLookup("a1", failed)
    \/ WriterInsert("a1")
    \/ ClockTick
    \/ SaveExisting
    \/ UpdateOne
    \/ FindOneAndUpdate
    \/ \E path \in {"metadata", "signature"}, value \in {"ip-B"} : UpdateMany(path, value)
    \/ \E name \in {"deleteOne", "findOneAndDelete"}, e \in auditLogs : DeleteOne(name, e)
    \/ DeleteMany
SpecAuditModel == InitAuditModel /\ [][NextAuditModel]_vars

\* The account of one email address under every request of the auth routes
InitAccount ==
    /\ InitAccountWith({Absent, ExternalAccount})
    /\ IdleAuth /\ IdleLimiter /\ IdleJwt /\ IdleAudit /\ IdlePay /\ IdleBearer /\ IdleEdge
NextAccount ==
    \/ \E emailFails \in BOOLEAN : PostRegister(emailFails)
    \/ \E token \in 1..MaxSecureTokens : PostVerifyEmail(token)
    \/ \E emailFails \in BOOLEAN : PostResendVerification(emailFails)
    \/ \E passwordOk, locks, newDevice, emailFails \in BOOLEAN :
          PostLogin(passwordOk, locks, newDevice, emailFails)
    \/ \E tempToken \in 1..MaxSecureTokens, codeOk \in BOOLEAN : PostLogin2FA(tempToken, codeOk)
    \/ \E valid \in BOOLEAN : PostRefresh(valid)
    \/ PostLogout
    \/ \E tokenFails, emailFails \in BOOLEAN : PostForgotPassword(tokenFails, emailFails)
    \/ \E token \in 1..MaxSecureTokens, reuse, emailFails \in BOOLEAN :
          PostResetPassword(token, reuse, emailFails)
    \/ \E currentOk, reuse, emailFails \in BOOLEAN : PostChangePassword(currentOk, reuse, emailFails)
    \/ PostEnable2FA
    \/ \E codeOk, emailFails \in BOOLEAN : PostVerify2FASetup(codeOk, emailFails)
    \/ \E passwordOk, codeOk \in BOOLEAN : PostDisable2FA(passwordOk, codeOk)
    \/ \E hasUser \in BOOLEAN : OAuthCallback(hasUser)
    \/ ExpireVerificationToken
    \/ ExpireResetToken
    \/ Unlock
SpecAccount == InitAccount /\ [][NextAccount]_vars

\* Payment intents of one user within 24 hours
InitPayment ==
    /\ InitPayWith({NoHistory})
    /\ IdleAuth /\ IdleLimiter /\ IdleJwt /\ IdleAudit /\ IdleAccount /\ IdleBearer /\ IdleEdge
NextPayment ==
    \/ \E body \in Bodies : PostCreateIntent(body)
    \/ PaymentFailed
SpecPayment == InitPayment /\ [][NextPayment]_vars

\* Bearer requests with the access tokens of logins, across expiry and
\* password changes.  The middleware reads the user document once, so a request
\* that arrives during a password change sees the document of before or of after
\* the change; requests are taken when no change is in flight.
InitBearer ==
    /\ InitAuthWith({}) /\ InitBearerWith({NoBearer})
    /\ IdleLimiter /\ IdleJwt /\ IdleAudit /\ IdleAccount /\ IdlePay /\ IdleEdge
NextBearer ==
    \/ \E u \in Users : Login(u)
    \/ \E t \in accessIssued : Expire(t)
    \/ PasswordStep
    \/ \E t \in accessIssued, tokenFp \in TokenFingerprints,
          enhanced, legacy \in Fingerprints, locked \in BOOLEAN, env \in Envs :
          /\ \A q \in PasswordWorkers : pcall[q].pc = "idle"
          /\ BearerRequest(t, tokenFp, enhanced, legacy, locked, env)
SpecBearer == InitBearer /\ [][NextBearer]_vars

\* SpecCsrf: requests to paths under /api/v1 with every combination of method,
\* Origin, Referer, Content-Type and environment
InitCsrf == IdleCore /\ IdleEdge
NextCsrf == \E r \in GateRequests : GateRequest(r)
SpecCsrf == InitCsrf /\ [][NextCsrf]_vars

\* SpecStore: the Redis client and rate-limit store from module load on, with
\* connection failures, failing commands and requests through the four limiters
\* and the failed-login tracker
InitStore == IdleCore /\ IdleEdge
NextStore ==
    \/ \E constructorThrows \in BOOLEAN : LoadModule(constructorThrows)
    \/ ConnectSucceeds
    \/ ConnectFails
    \/ ConnectionLost
    \/ Reconnected
    \/ \E l \in Limiters, opFails \in BOOLEAN : LimiterRequest(l, opFails)
    \/ \E opFails \in BOOLEAN : TrackerLookup(opFails)
SpecStore == InitStore /\ [][NextStore]_vars

\* SpecVault: the Vault client from construction on; startup, secret lookups and
\* token renewal with failing logins, reads and renewals
InitVault == IdleCore /\ IdleEdge
NextVault ==
    \/ \E roleId, secretId \in BOOLEAN, envKeys \in SUBSET SecretKeys :
          Construct(roleId, secretId, envKeys)
    \/ \E loginFails, readFails \in BOOLEAN, held \in SUBSET SecretKeys :
          InitializeVault(loginFails, readFails, held)
    \/ \E key \in SecretKeys, loginFails, readFails \in BOOLEAN, held \in SUBSET SecretKeys :
          GetSecret(key, loginFails, readFails, held)
    \/ \E renewFails, loginFails \in BOOLEAN : RenewToken(renewFails, loginFails)
SpecVault == InitVault /\ [][NextVault]_vars

\* SpecVerify: verifyAuditSignature over stored entries whose signature is intact,
\* tampered or of another length, under the signing key or another key
InitVerify == IdleCore /\ IdleEdge
NextVerify == \E log \in StoredEntries, secret \in {AuditKey, OtherKey} : VerifyEntry(log, secret)
SpecVerify == InitVerify /\ [][NextVerify]_vars

\* SpecBlockEnd: failed logins on one key until it is blocked, the passing of
\* time, and the requests after the block, in both store modes and with a failing
\* Redis command.  The steps of checkLoginBlock go on: an awaited store command
\* settles and the timer of line 264 fires.
InitBlockEnd == InitLimiter
NextBlockEnd ==
    \/ \E p \in DOMAIN req, k \in Keys, failed \in FaultChoices : CheckGet(p, k, failed)
    \/ \E p \in DOMAIN req, failed \in FaultChoices : CheckDelete(p, failed)
    \/ \E p \in DOMAIN req, failed \in FaultChoices : DelayGet(p, failed)
    \/ \E p \in DOMAIN req : DelayFire(p)
    \/ \E p \in DOMAIN req : Handler(p, "failure")
    \/ \E p \in DOMAIN req, failed \in FaultChoices : TrackGet(p, failed)
    \/ \E p \in DOMAIN req, failed \in FaultChoices : TrackSet(p, failed)
    \/ \E p \in DOMAIN req : RequestReturn(p)
    \/ Cleanup
    \/ Tick
SpecBlockEnd ==
    /\ InitBlockEnd /\ [][NextBlockEnd]_vars
    /\ WF_vars(\E p \in DOMAIN req, failed \in FaultChoices : CheckDelete(p, failed))
    /\ WF_vars(\E p \in DOMAIN req, failed \in FaultChoices : DelayGet(p, failed))
    /\ WF_vars(\E p \in DOMAIN req : DelayFire(p))

\* SpecLogout: logins, rotations, expiry and logout requests, with a session store
\* whose revoke can fail
InitLogout ==
    /\ InitAuthWith({"r1"}) /\ IdleLimiter /\ IdleJwt /\ IdleAudit
    /\ IdleAccount /\ IdlePay /\ IdleBearer /\ IdleEdge
NextLogout ==
    \/ \E u \in Users : Login(u)
    \/ \E t \in refreshIssued : Expire(t)
    \/ RefreshStep
    \/ \E t \in refreshIssued, revokeFails \in BOOLEAN : LogoutRequest(t, revokeFails)
SpecLogout == InitLogout /\ [][NextLogout]_vars

\* Specification: one access token, issued on a request and presented on a request
InitFingerprint == IdleCore /\ IdleEdge
NextFingerprint ==
    \/ \E by \in IssuingOps, r \in FingerprintRequests : IssueToken(by, r)
    \/ \E r2 \in FingerprintRequests, env \in Envs : PresentToken(r2, env)
SpecFingerprint == InitFingerprint /\ [][NextFingerprint]_vars

\* SpecHeld: two login requests at a time on one key, each failing or succeeding,
\* at one instant (no record expires meanwhile), in both store modes
InitHeld ==
    /\ InitLimiterWith(HeldWorkers, BOOLEAN, 0)
    /\ IdleAuth /\ IdleJwt /\ IdleAudit /\ Idle
NextHeld ==
    \/ \E p \in DOMAIN req, k \in Keys : CheckGet(p, k, FALSE)
    \/ \E p \in DOMAIN req : DelayGet(p, FALSE)
    \/ \E p \in DOMAIN req : DelayFire(p)
    \/ \E p \in DOMAIN req, outcome \in {"tokens", "failure"} : Handler(p, outcome)
    \/ \E p \in DOMAIN req : TrackGet(p, FALSE)
    \/ \E p \in DOMAIN req : TrackSet(p, FALSE)
    \/ \E p \in DOMAIN req : ResetDel(p, FALSE)
    \/ \E p \in DOMAIN req : RequestReturn(p)
SpecHeld == InitHeld /\ [][NextHeld]_vars

\* SpecKeys: login requests through the two login routes
InitKeys == IdleCore /\ IdleEdge
NextKeys ==
    \/ \E ip \in ClientIps, email \in EmailSpellings \cup {NoEmail},
          outcome \in {"tokens", "failure", "pending"} : LoginRoute(ip, email, outcome)
    \/ \E ip \in ClientIps, email \in {NoEmail, <<"n", "@", "e">>},
          outcome \in {"tokens", "failure"} : Login2FARoute(ip, email, outcome)
SpecKeys == InitKeys /\ [][NextKeys]_vars

\* SpecBackupCodes: the 2FA setup of one account and logins with backup codes
InitBackupCodes == IdleCore /\ IdleEdge
NextBackupCodes ==
    \/ SetupStart
    \/ SetupVerify
    \/ \E code \in AllBackupCodes : LoginWithBackupCode(code)
    \/ RegenerateBackupCodes
    \/ DisableCodes
SpecBackupCodes == InitBackupCodes /\ [][NextBackupCodes]_vars

\* SpecWebhook: deliveries of verified webhook events, each possibly repeated
InitWebhook == IdleCore /\ IdleEdge
NextWebhook == \E id \in EventIds, emailFails \in BOOLEAN : handleStripeEvent(id, emailFails)
SpecWebhook == InitWebhook /\ [][NextWebhook]_vars

\* SpecAnomaly: one call of a detector of anomaly.service on what the
\* database reads can return
InitAnomaly == IdleCore /\ IdleEdge
NextAnomaly ==
    \/ DetectHighValueOrderAnomaly
    \/ DetectRapidOrderCreation
    \/ DetectFailedLoginPattern
    \/ DetectPaymentFraud
    \/ PerformFraudCheck
SpecAnomaly == InitAnomaly /\ [][NextAnomaly]_vars

====
